---- MODULE Spec2Model ----
(***************************************************************************)
(* Model of the typed API client of the Football Prediction Bot front end  *)
(* (src/Next/lib/api.ts): the token kept in localStorage, the generic      *)
(* apiFetch wrapper and the nine endpoint wrappers built on it.            *)
(***************************************************************************)
EXTENDS Integers, Sequences, FiniteSets, TLC

VARIABLES
    env,        \* the JavaScript environment: window present?, NEXT_PUBLIC_API_BASE_URL
    storage,    \* localStorage entry 'auth_token': <<>> when absent, <<t>> when set to t
    call,       \* the wrapper invocation in progress (or Idle), see ApiFetchStart
    lastOp,     \* the operation of the client layer that ran last, with what it returned
    calls,      \* the wrapper invocations of several callers side by side, one each
    ui          \* the component rendered last: its props and what rendering gave

vars == <<env, storage, call, lastOp, calls, ui>>

(***************************************************************************)
(* JavaScript values, tagged by type.                                      *)
(***************************************************************************)
JsUndef == [t |-> "undefined"]
JsNull == [t |-> "null"]
JsStr(s) == [t |-> "string", v |-> s]
JsNum(n) == [t |-> "number", v |-> n]
\* an object: its properties, and its property names in insertion order
JsObj(keys, f) == [t |-> "object", v |-> f, keys |-> keys]
JsArr(items) == [t |-> "array", v |-> items]

\* An object literal without properties: {}
EmptyObj == [k \in {} |-> JsUndef]

\* ToBoolean, as used by !x, x || y and if (x)
Truthy(x) ==
    CASE x.t = "string" -> x.v # ""
      [] x.t = "number" -> x.v # 0
      [] x.t \in {"object", "array"} -> TRUE
      [] OTHER -> FALSE

Digit(d) == <<"0", "1", "2", "3", "4", "5", "6", "7", "8", "9">>[d + 1]

RECURSIVE NumToStr(_)
\* Number::toString for a non-negative integer: its decimal digits
NumToStr(n) == IF n < 10 THEN Digit(n) ELSE NumToStr(n \div 10) \o Digit(n % 10)

\* ToString, as applied by a template literal and by new Error(x); it is not
\* applied to arrays here
JsToString(x) ==
    CASE x.t = "string" -> x.v
      [] x.t = "number" -> NumToStr(x.v)
      [] x.t = "object" -> "[object Object]"
      [] x.t = "null" -> "null"
      [] OTHER -> "undefined"

\* { ...a, ...b }: the properties of a, overridden and extended by those of b
Spread(a, b) ==
    [k \in DOMAIN a \cup DOMAIN b |-> IF k \in DOMAIN b THEN b[k] ELSE a[k]]

\* o.k for a property bag o: undefined when o has no property k
Prop(o, k) == IF k \in DOMAIN o THEN o[k] ELSE JsUndef

\* x.k for a value x that is neither null nor undefined: primitives and arrays
\* have no own property of the names used here
Member(x, k) == IF x.t = "object" THEN Prop(x.v, k) ELSE JsUndef

\* "..." around s.  The strings drawn below hold no character that JSON escapes.
Quote(s) == "\"" \o s \o "\""

\* Number::toString for a non-negative number of m thousandths: its integer
\* part and, when it has one, its fraction without trailing zeros
DecToStr(m) ==
    LET f == m % 1000
    IN  NumToStr(m \div 1000)
          \o (IF f = 0 THEN ""
              ELSE "." \o Digit(f \div 100)
                    \o (IF f % 100 = 0 THEN ""
                        ELSE Digit((f \div 10) % 10)
                               \o (IF f % 10 = 0 THEN "" ELSE Digit(f % 10))))

RECURSIVE JSON_stringify(_), StringifyItems(_, _), StringifyMembers(_, _, _)
\* JSON.stringify: properties whose value is undefined are left out; a number
\* is an integer (v) or a decimal given in thousandths (milli)
JSON_stringify(x) ==
    CASE x.t = "string" -> Quote(x.v)
      [] x.t = "number" -> IF "milli" \in DOMAIN x THEN DecToStr(x.milli)
                           ELSE NumToStr(x.v)
      [] x.t = "array" -> "[" \o StringifyItems(x.v, 1) \o "]"
      [] x.t = "object" -> "{" \o StringifyMembers(x, 1, TRUE) \o "}"
      [] OTHER -> "null"

StringifyItems(items, i) ==
    IF i > Len(items) THEN ""
    ELSE (IF i > 1 THEN "," ELSE "") \o JSON_stringify(items[i])
            \o StringifyItems(items, i + 1)

StringifyMembers(o, i, first) ==
    IF i > Len(o.keys) THEN ""
    ELSE LET k == o.keys[i]
         IN  IF o.v[k].t = "undefined" THEN StringifyMembers(o, i + 1, first)
             ELSE (IF first THEN "" ELSE ",") \o Quote(k) \o ":"
                     \o JSON_stringify(o.v[k]) \o StringifyMembers(o, i + 1, FALSE)

(***************************************************************************)
(* Errors.  A thrown value is a record with the name of its class and its  *)
(* message.                                                                *)
(***************************************************************************)
Error(msg) == [name |-> "Error", message |-> msg]
ReferenceError == [name |-> "ReferenceError", message |-> "localStorage is not defined"]
NullPropTypeError ==
    [name |-> "TypeError", message |-> "Cannot read properties of null (reading 'message')"]
JsonSyntaxError == [name |-> "SyntaxError", message |-> "Unexpected end of JSON input"]

(***************************************************************************)
(* The environment.                                                        *)
(***************************************************************************)
\* the values of process.env.NEXT_PUBLIC_API_BASE_URL: unset, empty, set
BaseUrlSettings == {JsUndef, JsStr(""), JsStr("https://api.example.org")}

Envs == [hasWindow : BOOLEAN, baseUrl : BaseUrlSettings]

\* const API_BASE_URL = process.env.NEXT_PUBLIC_API_BASE_URL || 'http://localhost:8000'
API_BASE_URL == IF Truthy(env.baseUrl) THEN env.baseUrl.v ELSE "http://localhost:8000"

\* the token strings the callers pass to setToken
Tokens == {"", "abc", "xyz"}

Storages == {<<>>} \cup {<<t>> : t \in Tokens}

(***************************************************************************)
(* localStorage.  Outside a browser the global does not exist, and naming  *)
(* it throws a ReferenceError.  A result is [threw, value, store].         *)
(***************************************************************************)
Returned(v, store) == [threw |-> FALSE, value |-> v, store |-> store]
Threw(e, store) == [threw |-> TRUE, value |-> e, store |-> store]

localStorage_getItem ==
    IF ~env.hasWindow THEN Threw(ReferenceError, storage)
    ELSE Returned(IF storage = <<>> THEN JsNull ELSE JsStr(storage[1]), storage)

localStorage_setItem(token) ==
    IF ~env.hasWindow THEN Threw(ReferenceError, storage)
    ELSE Returned(JsUndef, <<token>>)

localStorage_removeItem ==
    IF ~env.hasWindow THEN Threw(ReferenceError, storage)
    ELSE Returned(JsUndef, <<>>)

(***************************************************************************)
(* Token functions.                                                        *)
(***************************************************************************)
\* getToken without its check for a browser
getTokenUnguarded == localStorage_getItem

\* if (typeof window === 'undefined') return null; return localStorage.getItem(..)
getToken ==
    IF ~env.hasWindow THEN Returned(JsNull, storage) ELSE localStorage_getItem

\* setToken with its check for a browser the wrong way round
setTokenInvertedGuard(token) ==
    IF ~env.hasWindow THEN localStorage_setItem(token) ELSE Returned(JsUndef, storage)

\* if (typeof window !== 'undefined') localStorage.setItem('auth_token', token)
setToken(token) ==
    IF env.hasWindow THEN localStorage_setItem(token) ELSE Returned(JsUndef, storage)

\* removeToken overwriting the entry with null, which localStorage keeps as 'null'
removeTokenStoresNull ==
    IF env.hasWindow THEN localStorage_setItem(JsToString(JsNull))
    ELSE Returned(JsUndef, storage)

\* if (typeof window !== 'undefined') localStorage.removeItem('auth_token')
removeToken ==
    IF env.hasWindow THEN localStorage_removeItem ELSE Returned(JsUndef, storage)

\* return !!getToken()
isAuthenticated ==
    LET r == getToken
    IN  IF r.threw THEN r ELSE Returned(Truthy(r.value), r.store)

(***************************************************************************)
(* What the callers pass to the endpoint wrappers.                         *)
(***************************************************************************)
\* the largest page number a caller asks of getAuditHistory
MaxPage == 2

AnalyzeKeys == <<"home_team", "away_team", "competition", "date">>

\* AnalyzeRequest values; the Analyze page passes competition: undefined
AnalyzeRequests ==
    { JsObj(AnalyzeKeys, [home_team |-> JsStr("Inter"), away_team |-> JsStr("Milan"),
                          competition |-> c, date |-> JsUndef])
        : c \in {JsUndef, JsStr("Serie A")} }

MatchIds == {"m1"}
RunIds == {"run-7"}

\* optional string filters: left out, empty, given
Dates == {JsUndef, JsStr(""), JsStr("2024-05-01")}
Competitions == {JsUndef, JsStr(""), JsStr("Serie A")}

OddsRiskRequests ==
    { JsObj(<<>>, EmptyObj),
      JsObj(<<"markets", "bankroll">>,
            [markets |-> JsArr(<<JsStr("1X2")>>), bankroll |-> JsNum(1000)]) }

PlayersKeys == <<"team", "match_id", "competition">>

PlayersRequests ==
    { JsObj(<<>>, EmptyObj),
      JsObj(PlayersKeys, [team |-> JsStr("Inter"), match_id |-> JsUndef,
                          competition |-> JsStr("Serie A")]),
      JsObj(PlayersKeys, [team |-> JsUndef, match_id |-> JsStr("m1"),
                          competition |-> JsUndef]),
      JsObj(PlayersKeys, [team |-> JsStr(""), match_id |-> JsStr("m1"),
                          competition |-> JsStr("Serie A")]) }

\* (page, perPage) as passed; undefined takes the parameter's default
AuditPages ==
    ({JsUndef} \cup {JsNum(p) : p \in 0..MaxPage}) \X {JsUndef, JsNum(10)}

ChatRequests ==
    { JsObj(<<"message", "session_id">>,
            [message |-> JsStr("ciao"), session_id |-> JsUndef]) }

(***************************************************************************)
(* URLSearchParams: a list of <<name, value>> pairs.                       *)
(***************************************************************************)
\* the application/x-www-form-urlencoded serialisation of the values drawn
\* above: a space becomes '+', letters, digits and '-' stay as they are
FormEncode(s) == IF s = "Serie A" THEN "Serie+A" ELSE s

RECURSIVE ParamsToString(_, _)
\* URLSearchParams.prototype.toString
ParamsToString(params, i) ==
    IF i > Len(params) THEN ""
    ELSE (IF i > 1 THEN "&" ELSE "") \o params[i][1] \o "=" \o FormEncode(params[i][2])
            \o ParamsToString(params, i + 1)

\* if (value) params.append(name, value)
AppendIf(params, name, value) ==
    IF Truthy(value) THEN Append(params, <<name, value.v>>) ELSE params

\* const query = params.toString() ? `?${params.toString()}` : ''
Query(params) ==
    IF ParamsToString(params, 1) # "" THEN "?" \o ParamsToString(params, 1) ELSE ""

(***************************************************************************)
(* The endpoint wrappers: each names the endpoint and the options it hands *)
(* to apiFetch.                                                            *)
(***************************************************************************)
Invocation(name, endpoint, options) ==
    [wrapper |-> name, endpoint |-> endpoint, options |-> options]

\* { method: 'POST', body: JSON.stringify(x) }
PostJson(x) == [method |-> JsStr("POST"), body |-> JsStr(JSON_stringify(x))]

getDashboardKPIs == Invocation("getDashboardKPIs", "/v1/ui/dashboard/kpis", EmptyObj)

analyzeMatch(request) == Invocation("analyzeMatch", "/v1/ui/analyze", PostJson(request))

analyzeById(matchId) ==
    Invocation("analyzeById", "/v1/ui/analyze_by_id/" \o matchId, EmptyObj)

\* getSlate appending competition before date
getSlateCompetitionFirst(date, competition) ==
    LET params == AppendIf(AppendIf(<<>>, "competition", competition), "date", date)
    IN  Invocation("getSlate", "/v1/ui/slate" \o Query(params), EmptyObj)

getSlate(date, competition) ==
    LET params == AppendIf(AppendIf(<<>>, "date", date), "competition", competition)
    IN  Invocation("getSlate", "/v1/ui/slate" \o Query(params), EmptyObj)

\* getOddsRisk passing its filters in no body, as a GET
getOddsRiskAsGet(filters) == Invocation("getOddsRisk", "/v1/ui/odds-risk", EmptyObj)

getOddsRisk(filters) == Invocation("getOddsRisk", "/v1/ui/odds-risk", PostJson(filters))

\* getPlayerProjections naming the match filter matchId
getPlayerProjectionsCamelCase(request) ==
    LET params ==
            AppendIf(AppendIf(AppendIf(<<>>, "team", Member(request, "team")),
                              "matchId", Member(request, "match_id")),
                     "competition", Member(request, "competition"))
    IN  Invocation("getPlayerProjections",
                   "/v1/ui/players/projections" \o Query(params), EmptyObj)

getPlayerProjections(request) ==
    LET params ==
            AppendIf(AppendIf(AppendIf(<<>>, "team", Member(request, "team")),
                              "match_id", Member(request, "match_id")),
                     "competition", Member(request, "competition"))
    IN  Invocation("getPlayerProjections",
                   "/v1/ui/players/projections" \o Query(params), EmptyObj)

\* getAuditHistory with the two numbers the wrong way round
getAuditHistorySwapped(pageArg, perPageArg) ==
    LET page == IF pageArg.t = "undefined" THEN JsNum(1) ELSE pageArg
        perPage == IF perPageArg.t = "undefined" THEN JsNum(20) ELSE perPageArg
    IN  Invocation("getAuditHistory",
                   "/v1/ui/audit/history?page=" \o JsToString(perPage)
                       \o "&per_page=" \o JsToString(page),
                   EmptyObj)

getAuditHistory(pageArg, perPageArg) ==
    LET page == IF pageArg.t = "undefined" THEN JsNum(1) ELSE pageArg
        perPage == IF perPageArg.t = "undefined" THEN JsNum(20) ELSE perPageArg
    IN  Invocation("getAuditHistory",
                   "/v1/ui/audit/history?page=" \o JsToString(page)
                       \o "&per_page=" \o JsToString(perPage),
                   EmptyObj)

getAuditDetail(runId) == Invocation("getAuditDetail", "/v1/ui/audit/" \o runId, EmptyObj)

sendChatMessage(request) == Invocation("sendChatMessage", "/v1/chat", PostJson(request))

Wrappers ==
    {"getDashboardKPIs", "analyzeMatch", "analyzeById", "getSlate", "getOddsRisk",
     "getPlayerProjections", "getAuditHistory", "getAuditDetail", "sendChatMessage"}

\* a wrapper call, with the arguments it was made with
Called(args, inv) == inv @@ [args |-> args]

\* every wrapper call the pages make
Invocations ==
    {Called(<<>>, getDashboardKPIs)}
        \cup {Called(<<r>>, analyzeMatch(r)) : r \in AnalyzeRequests}
        \cup {Called(<<JsStr(m)>>, analyzeById(m)) : m \in MatchIds}
        \cup {Called(<<d, c>>, getSlate(d, c)) : d \in Dates, c \in Competitions}
        \cup {Called(<<f>>, getOddsRisk(f)) : f \in OddsRiskRequests}
        \cup {Called(<<r>>, getPlayerProjections(r)) : r \in PlayersRequests}
        \cup {Called(a, getAuditHistory(a[1], a[2])) : a \in AuditPages}
        \cup {Called(<<JsStr(r)>>, getAuditDetail(r)) : r \in RunIds}
        \cup {Called(<<r>>, sendChatMessage(r)) : r \in ChatRequests}

(***************************************************************************)
(* What the network answers.  A response is its status line and its body;  *)
(* a body either decodes as JSON to a value or does not decode.            *)
(***************************************************************************)
Decodes(v) == [decodes |-> TRUE, value |-> v]
Undecodable == [decodes |-> FALSE]

ApiErrorKeys == <<"error", "message", "status">>

\* the structured error body { error, message, status } of types.ts
ApiError(error, message, status) ==
    JsObj(ApiErrorKeys,
          [error |-> JsStr(error), message |-> message, status |-> JsNum(status)])

\* status lines of failures; HTTP/2 responses have an empty status text
ErrorStatusLines ==
    {<<401, "Unauthorized">>, <<500, "Internal Server Error">>, <<500, "">>}

ErrorBodies(status) ==
    { Decodes(ApiError("api_error", JsStr("Token non valido"), status)),
      Decodes(ApiError("api_error", JsStr(""), status)),
      Decodes(ApiError("api_error", JsNum(42), status)),
      Decodes(JsObj(<<"detail">>, [detail |-> JsStr("Not authenticated")])),
      Decodes(JsStr("oops")),
      Decodes(JsNull),
      Undecodable }

\* the data of a successful response, as far as the client layer looks at it
Payload == JsObj(<<"data">>, [data |-> JsStr("payload")])

AnalyzeResponseKeys ==
    <<"match", "probabilities", "fair_odds", "edge_analysis", "top_scorelines",
      "audit_snapshot">>

\* a body of the shape AnalyzeResponse of types.ts, as far as its required
\* properties go; their own contents are left out
AnalyzePayload ==
    JsObj(AnalyzeResponseKeys,
          [match |-> JsObj(<<"id">>, [id |-> JsStr("m1")]),
           probabilities |->
               JsObj(<<"result_1x2", "over_under", "btts">>,
                     [result_1x2 |-> JsArr(<<>>), over_under |-> JsArr(<<>>),
                      btts |-> JsArr(<<>>)]),
           fair_odds |-> JsObj(<<>>, EmptyObj),
           edge_analysis |-> JsArr(<<>>),
           top_scorelines |-> JsArr(<<>>),
           audit_snapshot |-> JsObj(<<>>, EmptyObj)])

Response(status, statusText, body) ==
    [status |-> status, statusText |-> statusText, body |-> body]

Responses ==
    {Response(200, "OK", Decodes(Payload)), Response(200, "OK", Decodes(AnalyzePayload)),
     Response(200, "OK", Undecodable),
     Response(204, "No Content", Undecodable)}
        \cup UNION { {Response(l[1], l[2], b) : b \in ErrorBodies(l[1])}
                        : l \in ErrorStatusLines }

\* Response.ok
Ok(response) == response.status \in 200..299

\* what fetch rejects with when the request cannot be carried out
TransportErrors ==
    { [name |-> "TypeError", message |-> "Failed to fetch"],
      [name |-> "TypeError", message |-> "NetworkError when attempting to fetch resource."] }

(***************************************************************************)
(* apiFetch.  A wrapper invocation runs to its first await in one step     *)
(* (ApiFetchStart), resumes when fetch settles (FetchResolves or           *)
(* FetchRejects), and again when the body has been read (JsonSettles).     *)
(* call records: the invocation, the token stored when it was made, the    *)
(* requests it handed to fetch, the response or the transport error fetch  *)
(* settled with, and how the wrapper's promise settled.                    *)
(***************************************************************************)
Idle == [pc |-> "idle"]

None == [t |-> "none"]

Resolved(v) == [kind |-> "resolved", value |-> v]
Rejected(e) == [kind |-> "rejected", error |-> e]

NotAuthenticatedMessage == "Non autenticato. Effettua il login."

\* the headers with the token sent bare, without its scheme
RequestHeadersBareToken(token, options) ==
    Spread(("Content-Type" :> JsStr("application/json"))
               @@ ("Authorization" :> JsStr(JsToString(token))),
           IF "headers" \in DOMAIN options THEN options.headers ELSE EmptyObj)

\* const headers = { 'Content-Type': ..., 'Authorization': `Bearer ${token}`,
\*                   ...options.headers }
RequestHeaders(token, options) ==
    Spread(("Content-Type" :> JsStr("application/json"))
               @@ ("Authorization" :> JsStr("Bearer " \o JsToString(token))),
           IF "headers" \in DOMAIN options THEN options.headers ELSE EmptyObj)

\* fetch called with the endpoint alone, the base URL left out
FetchRequestRelative(token, endpoint, options) ==
    [url |-> endpoint,
     init |-> Spread(options, [headers |-> RequestHeaders(token, options)])]

\* fetch(`${API_BASE_URL}${endpoint}`, { ...options, headers })
FetchRequest(token, endpoint, options) ==
    [url |-> API_BASE_URL \o endpoint,
     init |-> Spread(options, [headers |-> RequestHeaders(token, options)])]

\* the method fetch uses for a request: GET unless init names one
FetchMethod(init) == IF "method" \in DOMAIN init THEN init.method.v ELSE "GET"

\* the part of a call record that every branch of apiFetch starts from
Started(inv) ==
    [wrapper |-> inv.wrapper, args |-> inv.args, endpoint |-> inv.endpoint,
     storedAtCall |-> storage, response |-> None, transport |-> None]

\* apiFetch issuing the request before it looks at the token
ApiFetchStartFetchesFirst(inv) ==
    LET tok == getToken
        sent == <<FetchRequest(tok.value, inv.endpoint, inv.options)>>
    IN  IF ~Truthy(tok.value)
        THEN Started(inv) @@ [pc |-> "done", requests |-> sent,
                              outcome |-> Rejected(Error(NotAuthenticatedMessage))]
        ELSE Started(inv) @@ [pc |-> "fetch", requests |-> sent, outcome |-> None]

\* const token = getToken(); if (!token) throw ...; ... await fetch(...)
ApiFetchStart(inv) ==
    LET tok == getToken
    IN  IF tok.threw
        THEN Started(inv) @@ [pc |-> "done", requests |-> <<>>,
                              outcome |-> Rejected(tok.value)]
        ELSE IF ~Truthy(tok.value)
        THEN Started(inv) @@ [pc |-> "done", requests |-> <<>>,
                              outcome |-> Rejected(Error(NotAuthenticatedMessage))]
        ELSE Started(inv) @@ [pc |-> "fetch",
                              requests |-> <<FetchRequest(tok.value, inv.endpoint,
                                                          inv.options)>>,
                              outcome |-> None]

\* apiFetch trying the request again when fetch rejects
AfterFetchRejectsRetries(c, error) ==
    [c EXCEPT !.requests = Append(@, @[1])]

\* apiFetch catching the transport error and throwing one of its own
AfterFetchRejectsWrapped(c, error) ==
    [c EXCEPT !.pc = "done", !.outcome = Rejected(Error(error.message))]

\* a fetch that rejects: the await throws and nothing catches it
AfterFetchRejects(c, error) == [c EXCEPT !.pc = "done", !.outcome = Rejected(error)]

\* the fallback error body with a message that leaves the status out
ErrorBodyWithoutStatus(response) ==
    IF response.body.decodes THEN response.body.value
    ELSE ApiError("API Error", JsStr("Errore: " \o response.statusText), response.status)

\* response.json().catch(() => ({ error: 'API Error', message: `Errore ...`, status }))
ErrorBody(response) ==
    IF response.body.decodes THEN response.body.value
    ELSE ApiError("API Error",
                  JsStr("Errore " \o NumToStr(response.status) \o ": "
                            \o response.statusText),
                  response.status)

\* the error thrown built from the body's error field instead of its message
ErrorThrownFromErrorField(response) ==
    LET error == ErrorBody(response)
    IN  IF error.t \in {"null", "undefined"} THEN NullPropTypeError
        ELSE LET message == Member(error, "error")
             IN  IF Truthy(message) THEN Error(JsToString(message))
                 ELSE Error("Errore API: " \o NumToStr(response.status))

\* throw new Error(error.message || `Errore API: ${response.status}`)
ErrorThrown(response) ==
    LET error == ErrorBody(response)
    IN  IF error.t \in {"null", "undefined"} THEN NullPropTypeError
        ELSE LET message == Member(error, "message")
             IN  IF Truthy(message) THEN Error(JsToString(message))
                 ELSE Error("Errore API: " \o NumToStr(response.status))

\* apiFetch without its check of response.ok
OutcomeIgnoresStatus(response) ==
    IF response.body.decodes THEN Resolved(response.body.value)
    ELSE Rejected(JsonSyntaxError)

\* if (!response.ok) { ...; throw ... }  return response.json()
Outcome(response) ==
    IF ~Ok(response) THEN Rejected(ErrorThrown(response))
    ELSE IF response.body.decodes THEN Resolved(response.body.value)
    ELSE Rejected(JsonSyntaxError)

\* how many callers have a wrapper call of theirs in flight at once
MaxInFlight == 2

Callers == 1..MaxInFlight

\* no caller has a call in flight
NoneInFlight == [i \in Callers |-> Idle]

\* nothing has been rendered
NotRendered == [component |-> "none"]

Init ==
    /\ env \in Envs
    /\ storage \in (IF env.hasWindow THEN Storages ELSE {<<>>})
    /\ call = Idle
    /\ lastOp = [op |-> "none"]
    /\ calls = NoneInFlight
    /\ ui = NotRendered

SetToken(token) ==
    LET r == setToken(token)
    IN  /\ storage' = r.store
        /\ lastOp' = [op |-> "setToken", arg |-> token, threw |-> r.threw]
        /\ UNCHANGED <<env, call, calls, ui>>

RemoveToken ==
    LET r == removeToken
    IN  /\ storage' = r.store
        /\ lastOp' = [op |-> "removeToken", threw |-> r.threw]
        /\ UNCHANGED <<env, call, calls, ui>>

\* a page calls an endpoint wrapper
Invoke(inv) ==
    /\ call = Idle
    /\ call' = ApiFetchStart(inv)
    /\ lastOp' = [op |-> inv.wrapper]
    /\ UNCHANGED <<env, storage, calls, ui>>

\* the response arrives; apiFetch goes on to read its body
FetchResolves(response) ==
    /\ call.pc = "fetch"
    /\ call' = [call EXCEPT !.pc = "json", !.response = response]
    /\ UNCHANGED <<env, storage, lastOp, calls, ui>>

\* the request fails in transport
FetchRejects(error) ==
    /\ call.pc = "fetch"
    /\ call' = AfterFetchRejects([call EXCEPT !.transport = error], error)
    /\ UNCHANGED <<env, storage, lastOp, calls, ui>>

\* response.json() settles and the wrapper's promise with it
JsonSettles ==
    /\ call.pc = "json"
    /\ call' = [call EXCEPT !.pc = "done", !.outcome = Outcome(call.response)]
    /\ UNCHANGED <<env, storage, lastOp, calls, ui>>

\* the caller has taken the outcome
Return ==
    /\ call.pc = "done"
    /\ call' = Idle
    /\ UNCHANGED <<env, storage, lastOp, calls, ui>>

Next ==
    \/ \E token \in Tokens : SetToken(token)
    \/ RemoveToken
    \/ \E inv \in Invocations : Invoke(inv)
    \/ \E response \in Responses : FetchResolves(response)
    \/ \E error \in TransportErrors : FetchRejects(error)
    \/ JsonSettles
    \/ Return

Spec == Init /\ [][Next]_vars

(***************************************************************************)
(* Several callers at once.  apiFetch keeps everything it works with in    *)
(* locals and parameters, so each caller's invocation has a record of its  *)
(* own; the stored token is all the invocations have in common.  One       *)
(* caller's call resumes at a time: JavaScript runs a continuation to its  *)
(* next await before it starts another.                                    *)
(***************************************************************************)
\* the calls of a list view and of a detail dialog open over it
ParallelInvocations ==
    {inv \in Invocations : inv.wrapper = "getAuditDetail"}
        \cup {Called(<<JsNum(1), JsUndef>>, getAuditHistory(JsNum(1), JsUndef))}

ParallelResponses ==
    {Response(200, "OK", Decodes(Payload)),
     Response(401, "Unauthorized",
              Decodes(ApiError("api_error", JsStr("Token non valido"), 401))),
     Response(500, "", Undecodable)}

\* the response a caller's continuation reads: whichever arrived first, as if
\* apiFetch kept it in a variable of the module
ResponseSharedByAll(cs, i) ==
    LET arrived == {j \in Callers : cs[j].pc # "idle" /\ cs[j].response # None}
    IN  cs[CHOOSE j \in arrived : \A k \in arrived : j <= k].response

\* const response = await fetch(...): a local of the invocation
ResponseOf(cs, i) == cs[i].response

InitParallel ==
    /\ env \in {e \in Envs : e.hasWindow}
    /\ storage \in Storages
    /\ call = Idle
    /\ lastOp = [op |-> "none"]
    /\ calls = NoneInFlight
    /\ ui = NotRendered

\* caller i calls an endpoint wrapper
InvokeBy(i, inv) ==
    /\ calls[i] = Idle
    /\ calls' = [calls EXCEPT ![i] = ApiFetchStart(inv)]
    /\ UNCHANGED <<env, storage, call, lastOp, ui>>

\* the response to caller i's request arrives
FetchResolvesFor(i, response) ==
    /\ calls[i].pc = "fetch"
    /\ calls' = [calls EXCEPT ![i].pc = "json", ![i].response = response]
    /\ UNCHANGED <<env, storage, call, lastOp, ui>>

\* caller i's request fails in transport
FetchRejectsFor(i, error) ==
    /\ calls[i].pc = "fetch"
    /\ calls' = [calls EXCEPT
                    ![i] = AfterFetchRejects([calls[i] EXCEPT !.transport = error], error)]
    /\ UNCHANGED <<env, storage, call, lastOp, ui>>

\* the body of caller i's response has been read
JsonSettlesFor(i) ==
    /\ calls[i].pc = "json"
    /\ calls' = [calls EXCEPT ![i].pc = "done",
                               ![i].outcome = Outcome(ResponseOf(calls, i))]
    /\ UNCHANGED <<env, storage, call, lastOp, ui>>

\* caller i has taken the outcome
ReturnTo(i) ==
    /\ calls[i].pc = "done"
    /\ calls' = [calls EXCEPT ![i] = Idle]
    /\ UNCHANGED <<env, storage, call, lastOp, ui>>

NextParallel ==
    \/ \E token \in Tokens : SetToken(token)
    \/ RemoveToken
    \/ \E i \in Callers, inv \in ParallelInvocations : InvokeBy(i, inv)
    \/ \E i \in Callers, response \in ParallelResponses : FetchResolvesFor(i, response)
    \/ \E i \in Callers, error \in TransportErrors : FetchRejectsFor(i, error)
    \/ \E i \in Callers : JsonSettlesFor(i)
    \/ \E i \in Callers : ReturnTo(i)

SpecParallel == InitParallel /\ [][NextParallel]_vars

(***************************************************************************)
(* Properties of the client layer.                                         *)
(***************************************************************************)
\* the call has settled
Done == call.pc = "done"

\* the call got a response with a non-success status and has settled
FailedResponse == Done /\ call.response # None /\ ~Ok(call.response)

Unauthenticated == Rejected(Error(NotAuthenticatedMessage))

\* v has the shape of ApiError in types.ts: { error: string, message: string,
\* status: number }
IsApiError(v) ==
    /\ v.t = "object"
    /\ {"error", "message", "status"} \subseteq DOMAIN v.v
    /\ v.v.error.t = "string"
    /\ v.v.message.t = "string"
    /\ v.v.status.t = "number"

\* C1: a wrapper called while no token is stored has, as soon as the call is
\* made, rejected with the 'not authenticated' error, and has handed no
\* request to fetch; this for every wrapper and argument.
C1_NoTokenNoNetwork ==
    (call.pc # "idle" /\ call.storedAtCall = <<>>)
        => /\ Done
           /\ call.outcome = Unauthenticated
           /\ call.requests = <<>>

C1_Witness ==
    /\ env.hasWindow
    /\ Done
    /\ call.storedAtCall = <<>>
    /\ call.wrapper = "sendChatMessage"

\* C2 as stated: in a browser, right after setToken(t), for every string t,
\* isAuthenticated() returns true, and right after removeToken() it returns
\* false.
C2_AsStated ==
    env.hasWindow
        => /\ lastOp.op = "setToken" => isAuthenticated = Returned(TRUE, storage)
           /\ lastOp.op = "removeToken" => isAuthenticated = Returned(FALSE, storage)

\* C2, amended: in a browser, right after setToken(t) for a non-empty string t
\* isAuthenticated() returns true, and right after removeToken() it returns
\* false.
C2_SetThenAuthenticated ==
    env.hasWindow
        => /\ (lastOp.op = "setToken" /\ lastOp.arg # "")
                => isAuthenticated = Returned(TRUE, storage)
           /\ lastOp.op = "removeToken" => isAuthenticated = Returned(FALSE, storage)

C2_Witness ==
    /\ env.hasWindow
    /\ lastOp.op = "setToken"
    /\ lastOp.arg = "xyz"
    /\ storage = <<"xyz">>
    /\ isAuthenticated.value = TRUE

\* C3: a call whose response has a non-success status rejects with an error
\* that carries a message string, and does not resolve, whatever the body.
C3_FailureRejects ==
    FailedResponse
        => /\ call.outcome.kind = "rejected"
           /\ call.outcome.error.message \in STRING

C3_Witness ==
    /\ FailedResponse
    /\ call.response.body = Decodes(JsNull)
    /\ call.outcome.kind = "rejected"

\* C4 as stated: when the body of a non-2xx response decodes to a structured
\* error, the error thrown has the body's message as its message.
C4_AsStated ==
    (FailedResponse /\ call.response.body.decodes
            /\ IsApiError(call.response.body.value))
        => call.outcome = Rejected(Error(call.response.body.value.v.message.v))

\* C4, amended: when the body of a non-2xx response decodes to a structured
\* error whose message is not empty, the error thrown has the body's message
\* as its message.
C4_StructuredMessage ==
    (FailedResponse /\ call.response.body.decodes
            /\ IsApiError(call.response.body.value)
            /\ call.response.body.value.v.message.v # "")
        => call.outcome = Rejected(Error(call.response.body.value.v.message.v))

C4_Witness ==
    /\ FailedResponse
    /\ call.response.status = 401
    /\ call.response.body.decodes
    /\ IsApiError(call.response.body.value)
    /\ call.outcome = Rejected(Error("Token non valido"))

\* C5: when the body of a non-2xx response does not decode as JSON, the error
\* thrown has the message 'Errore <status>: <statusText>', with the status in
\* decimal.
C5_SynthesizedMessage ==
    (FailedResponse /\ ~call.response.body.decodes)
        => call.outcome =
               Rejected(Error("Errore " \o ToString(call.response.status) \o ": "
                                  \o call.response.statusText))

C5_Witness ==
    /\ FailedResponse
    /\ ~call.response.body.decodes
    /\ call.outcome = Rejected(Error("Errore 500: Internal Server Error"))

\* C6: every request handed to fetch carries Authorization 'Bearer ' + t and
\* Content-Type 'application/json', t being the token stored when the wrapper
\* was called, whatever setToken and removeToken do while it is in flight.
C6_RequestHeaders ==
    call.pc # "idle"
        => \A i \in 1..Len(call.requests) :
               LET headers == call.requests[i].init.headers
               IN  /\ call.storedAtCall # <<>>
                   /\ DOMAIN headers = {"Authorization", "Content-Type"}
                   /\ headers["Authorization"] = JsStr("Bearer " \o call.storedAtCall[1])
                   /\ headers["Content-Type"] = JsStr("application/json")

C6_Witness ==
    /\ call.pc = "fetch"
    /\ Len(call.requests) = 1
    /\ call.storedAtCall = <<"abc">>
    /\ storage = <<"xyz">>

\* C7: the stored token changes only in a step of setToken, to the argument,
\* or of removeToken, to absent; no step of a wrapper call changes it.
C7_TokenFrame ==
    [][/\ call' # call => storage' = storage
       /\ storage' # storage
            => \/ lastOp'.op = "setToken" /\ storage' = <<lastOp'.arg>>
               \/ lastOp'.op = "removeToken" /\ storage' = <<>>]_vars

C7_Witness ==
    /\ FailedResponse
    /\ call.response.status = 401
    /\ call.storedAtCall = <<"abc">>
    /\ storage = <<"abc">>
    /\ lastOp.op = call.wrapper

\* C8: without a window, setToken and removeToken do not throw and store
\* nothing, isAuthenticated() returns false without throwing, and every
\* wrapper call fails with the 'not authenticated' error.
C8_NoWindow ==
    ~env.hasWindow
        => /\ lastOp.op \in {"setToken", "removeToken"} => ~lastOp.threw
           /\ storage = <<>>
           /\ isAuthenticated = Returned(FALSE, <<>>)
           /\ call.pc # "idle" => Done /\ call.outcome = Unauthenticated

C8_Witness ==
    /\ ~env.hasWindow
    /\ lastOp.op = "setToken"
    /\ lastOp.arg = "abc"
    /\ Done
    /\ call.wrapper = "getSlate"

\* C9: a wrapper invocation hands exactly one request to fetch when a token
\* (a non-empty one, which is what apiFetch takes for a token) was stored at
\* the call, and none otherwise, at every stage and whatever its outcome.
C9_NoRetry ==
    call.pc # "idle"
        => Len(call.requests)
               = IF call.storedAtCall \notin {<<>>, <<"">>} THEN 1 ELSE 0

C9_Witness ==
    /\ Done
    /\ call.transport # None
    /\ Len(call.requests) = 1

\* C10: when fetch rejects, the wrapper rejects with the very error fetch
\* rejected with.
C10_TransportErrorAsIs ==
    (Done /\ call.transport # None) => call.outcome = Rejected(call.transport)

C10_Witness ==
    /\ Done
    /\ call.transport = [name |-> "TypeError", message |-> "Failed to fetch"]
    /\ call.outcome.kind = "rejected"

(***************************************************************************)
(* Properties of the requests the wrappers issue.                          *)
(***************************************************************************)
\* the call has handed its request to fetch
Issued == call.pc # "idle" /\ Len(call.requests) = 1

\* the path of the issued request is p
PathIs(p) == call.requests[1].url = API_BASE_URL \o p

\* a string filter is given: passed, and not the empty string
Given(x) == x.t = "string" /\ x.v # ""

RECURSIVE Joined(_, _, _)
\* name=value for the given filters among pairs[i..], in order, '&' between them
Joined(pairs, i, first) ==
    IF i > Len(pairs) THEN ""
    ELSE IF ~Given(pairs[i][2]) THEN Joined(pairs, i + 1, first)
    ELSE (IF first THEN "" ELSE "&") \o pairs[i][1] \o "="
            \o (IF pairs[i][2].v = "Serie A" THEN "Serie+A" ELSE pairs[i][2].v)
            \o Joined(pairs, i + 1, FALSE)

\* the query string for the filters of pairs: empty when none is given
QueryFor(pairs) ==
    IF \A i \in 1..Len(pairs) : ~Given(pairs[i][2]) THEN ""
    ELSE "?" \o Joined(pairs, 1, TRUE)

GetWrappers ==
    {"getDashboardKPIs", "analyzeById", "getSlate", "getPlayerProjections",
     "getAuditHistory", "getAuditDetail"}

\* C11: with a token stored each wrapper issues the method and path of the
\* interface table: the read wrappers a GET without body, analyzeMatch,
\* getOddsRisk and sendChatMessage a POST whose body is the JSON text of the
\* argument.
C11_MethodAndPath ==
    Issued
        => LET init == call.requests[1].init
               w == call.wrapper
           IN  /\ w \in GetWrappers
                    => FetchMethod(init) = "GET" /\ "body" \notin DOMAIN init
               /\ w \notin GetWrappers
                    => /\ FetchMethod(init) = "POST"
                       /\ "body" \in DOMAIN init
                       /\ init.body = JsStr(JSON_stringify(call.args[1]))
               /\ w = "getDashboardKPIs" => PathIs("/v1/ui/dashboard/kpis")
               /\ w = "analyzeById" => PathIs("/v1/ui/analyze_by_id/" \o call.args[1].v)
               /\ w = "getAuditDetail" => PathIs("/v1/ui/audit/" \o call.args[1].v)
               /\ w = "analyzeMatch" => PathIs("/v1/ui/analyze")
               /\ w = "getOddsRisk" => PathIs("/v1/ui/odds-risk")
               /\ w = "sendChatMessage" => PathIs("/v1/chat")

C11_Witness ==
    /\ Issued
    /\ call.wrapper = "analyzeMatch"
    /\ call.requests[1].url = "http://localhost:8000/v1/ui/analyze"
    /\ call.requests[1].init.method = JsStr("POST")
    /\ call.requests[1].init.body
           = JsStr("{\"home_team\":\"Inter\",\"away_team\":\"Milan\"}")

\* C12: getSlate(date, competition) requests /v1/ui/slate followed by one
\* parameter for each filter given, date before competition, and by no '?'
\* when none is given.
C12_SlateQuery ==
    (Issued /\ call.wrapper = "getSlate")
        => PathIs("/v1/ui/slate"
                      \o QueryFor(<<<<"date", call.args[1]>>,
                                    <<"competition", call.args[2]>>>>))

C12_Witness ==
    /\ Issued
    /\ call.wrapper = "getSlate"
    /\ call.args = <<JsStr("2024-05-01"), JsUndef>>
    /\ call.requests[1].url = "http://localhost:8000/v1/ui/slate?date=2024-05-01"

\* C13: getAuditHistory(page, perPage) requests
\* /v1/ui/audit/history?page=<page>&per_page=<perPage>, with page 1 and
\* perPage 20 for the arguments left out.
C13_AuditHistoryPath ==
    (Issued /\ call.wrapper = "getAuditHistory")
        => LET page == IF call.args[1] = JsUndef THEN 1 ELSE call.args[1].v
               perPage == IF call.args[2] = JsUndef THEN 20 ELSE call.args[2].v
           IN  PathIs("/v1/ui/audit/history?page=" \o ToString(page)
                          \o "&per_page=" \o ToString(perPage))

C13_Witness ==
    /\ Issued
    /\ call.wrapper = "getAuditHistory"
    /\ call.args = <<JsNum(2), JsNum(10)>>
    /\ call.requests[1].url
           = "http://localhost:8000/v1/ui/audit/history?page=2&per_page=10"

\* C14: getPlayerProjections(request) requests /v1/ui/players/projections
\* followed by the parameters team, match_id, competition, in that order, for
\* the filters the request gives, and by no query string when it gives none.
C14_PlayersQuery ==
    (Issued /\ call.wrapper = "getPlayerProjections")
        => PathIs("/v1/ui/players/projections"
                      \o QueryFor(<<<<"team", Member(call.args[1], "team")>>,
                                    <<"match_id", Member(call.args[1], "match_id")>>,
                                    <<"competition",
                                      Member(call.args[1], "competition")>>>>))

C14_Witness ==
    /\ Issued
    /\ call.wrapper = "getPlayerProjections"
    /\ call.requests[1].url
           = "http://localhost:8000/v1/ui/players/projections?team=Inter&competition=Serie+A"

\* v has the required properties of AnalyzeResponse
HasAnalyzeShape(v) ==
    /\ v.t = "object"
    /\ {"match", "probabilities", "fair_odds", "edge_analysis", "top_scorelines",
        "audit_snapshot"} \subseteq DOMAIN v.v
    /\ v.v.probabilities.t = "object"
    /\ {"result_1x2", "over_under", "btts"} \subseteq DOMAIN v.v.probabilities.v

\* C18: the value a wrapper resolves with has the shape declared for its
\* endpoint: what analyzeMatch resolves with has match,
\* probabilities.result_1x2, .over_under and .btts, fair_odds, edge_analysis,
\* top_scorelines and audit_snapshot.
C18_DeclaredShape ==
    (Done /\ call.wrapper = "analyzeMatch" /\ call.outcome.kind = "resolved")
        => HasAnalyzeShape(call.outcome.value)

\* C19 as stated: the URL of a request is the base URL followed by the
\* endpoint path, the base URL being NEXT_PUBLIC_API_BASE_URL, and
\* http://localhost:8000 when that is unset.
C19_AsStated ==
    Issued
        => call.requests[1].url
               = (IF env.baseUrl = JsUndef THEN "http://localhost:8000"
                  ELSE env.baseUrl.v) \o call.endpoint

\* C19, amended: the URL of a request is the base URL followed by the
\* endpoint path, the base URL being NEXT_PUBLIC_API_BASE_URL, and
\* http://localhost:8000 when that is unset or empty.
C19_BaseUrl ==
    Issued
        => call.requests[1].url
               = (IF env.baseUrl \in {JsUndef, JsStr("")} THEN "http://localhost:8000"
                  ELSE env.baseUrl.v) \o call.endpoint

C19_Witness ==
    /\ Issued
    /\ env.baseUrl = JsStr("https://api.example.org")
    /\ call.requests[1].url = "https://api.example.org/v1/ui/dashboard/kpis"

\* C15: with several wrapper calls in flight and their responses arriving in
\* any order, a call that has settled has the outcome of its own request --
\* its own transport error, its own response, or the refusal for want of a
\* token when it was made -- and the request was built from its own endpoint
\* and the token stored when it was made; a step of one call changes neither
\* another call nor the stored token.
OwnOutcome(c) ==
    IF c.transport # None THEN Rejected(c.transport)
    ELSE IF c.response # None THEN Outcome(c.response)
    ELSE Rejected(Error(NotAuthenticatedMessage))

OwnRequest(c) ==
    IF c.storedAtCall = <<>> \/ c.storedAtCall = <<"">> THEN c.requests = <<>>
    ELSE /\ Len(c.requests) = 1
         /\ c.requests[1].url = API_BASE_URL \o c.endpoint
         /\ c.requests[1].init.headers["Authorization"]
                = JsStr("Bearer " \o c.storedAtCall[1])

C15_Isolated ==
    /\ [](\A i \in Callers :
              calls[i].pc = "done"
                  => calls[i].outcome = OwnOutcome(calls[i]) /\ OwnRequest(calls[i]))
    /\ [][\A i \in Callers :
              calls'[i] # calls[i]
                  => storage' = storage /\ \A j \in Callers \ {i} : calls'[j] = calls[j]]_vars

\* caller 2 has its outcome while caller 1, answered differently, still reads
\* its body
C15_Witness ==
    /\ calls[1].pc = "json" /\ calls[2].pc = "done"
    /\ calls[2].response # None /\ calls[1].response # calls[2].response
    /\ calls[1].wrapper # calls[2].wrapper
    /\ calls[1].storedAtCall # calls[2].storedAtCall
    /\ calls[2].outcome = Outcome(calls[2].response)
    /\ calls[2].outcome # Outcome(calls[1].response)

(***************************************************************************)
(* The components that render what the wrappers resolve with.  A component *)
(* is a function of its props; rendering either gives the texts it shows   *)
(* or throws.  Numbers of the responses are carried in thousandths:        *)
(* JsDec(873) is 0.873.                                                    *)
(***************************************************************************)
JsDec(m) == [t |-> "number", milli |-> m]

Rendered(out) == [threw |-> FALSE, value |-> out]
RenderThrew(e) == [threw |-> TRUE, value |-> e]

\* x === undefined || x === null
Nullish(x) == x.t \in {"null", "undefined"}

\* what reading property k of undefined throws
UndefinedPropTypeError(k) ==
    [name |-> "TypeError",
     message |-> "Cannot read properties of undefined (reading '" \o k \o "')"]

\* x || d
OrElse(x, d) == IF Truthy(x) THEN x ELSE d

\* x ?? d without the default: x as it is
CoalesceNothing(x, d) == x

\* x ?? d
Coalesce(x, d) == IF Nullish(x) THEN d ELSE x

\* ToNumber of a number or of null
ToNumber(x) == IF x.t = "null" THEN 0 ELSE x.milli

RECURSIVE Digits(_, _)
\* the last k decimal digits of n
Digits(n, k) == IF k = 0 THEN "" ELSE Digits(n \div 10, k - 1) \o Digit(n % 10)

\* 10^k for the k used below
Pow10(k) == <<1, 10, 100, 1000>>[k + 1]

\* Number.prototype.toFixed(digits) of m thousandths, digits in 0..3: the
\* nearest number with that many decimals (the larger of two equally near),
\* the sign of a negative number in front
toFixed(m, digits) ==
    LET x == IF m < 0 THEN 0 - m ELSE m
        scale == Pow10(3 - digits)
        n == (x + (scale \div 2)) \div scale
    IN  (IF m < 0 THEN "-" ELSE "") \o NumToStr(n \div Pow10(digits))
            \o (IF digits > 0 THEN "." \o Digits(n % Pow10(digits), digits) ELSE "")

RECURSIVE Concat(_)
\* the items of a list of lists, in order
Concat(lists) == IF lists = <<>> THEN <<>> ELSE Head(lists) \o Concat(Tail(lists))

(***************************************************************************)
(* ProAnalysisPanel (app/ui/analyze/page.tsx).                             *)
(***************************************************************************)
formatPct(value) ==
    IF Nullish(value) THEN "-" ELSE toFixed(ToNumber(value) * 100, 1) \o "%"

formatNum(value, digits) ==
    IF Nullish(value) THEN "-" ELSE toFixed(ToNumber(value), digits)

formatSignedPct(value) ==
    IF Nullish(value) THEN "-"
    ELSE (IF ToNumber(value) >= 0 THEN "+" ELSE "")
            \o toFixed(ToNumber(value) * 100, 1) \o "%"

formatSigned(value, digits) ==
    IF Nullish(value) THEN "-"
    ELSE (IF ToNumber(value) >= 0 THEN "+" ELSE "") \o toFixed(ToNumber(value), digits)

formatDriverDelta(pct, raw) ==
    IF ~Nullish(pct) THEN formatSignedPct(pct)
    ELSE IF ~Nullish(raw) THEN formatSigned(raw, 2)
    ELSE "-"

rangeLabels ==
    [home_win |-> "1", draw |-> "X", away_win |-> "2", over_2_5 |-> "Over 2.5",
     under_2_5 |-> "Under 2.5", btts_yes |-> "BTTS Si", btts_no |-> "BTTS No"]

orderedRangeKeys ==
    <<"home_win", "draw", "away_win", "under_2_5", "over_2_5", "btts_no", "btts_yes">>

\* one row of scenarioRows: label, range and sensitivity of a market
scenarioRow(scenarioRanges, scenarioSensitivity, key) ==
    LET range == OrElse(Member(scenarioRanges, key), JsObj(<<>>, EmptyObj))
        min == Member(range, "min")
        max == Member(range, "max")
        rangeLabel ==
            IF min.t # "undefined" /\ max.t # "undefined"
            THEN IF ToNumber(min) = ToNumber(max)
                 THEN toFixed(ToNumber(min) * 100, 1) \o "%"
                 ELSE toFixed(ToNumber(min) * 100, 1) \o "-"
                         \o toFixed(ToNumber(max) * 100, 1) \o "%"
            ELSE "-"
        sens == Member(scenarioSensitivity, key)
        sensLabel == IF Nullish(sens) THEN "-" ELSE toFixed(ToNumber(sens) * 100, 1) \o " pp"
    IN  <<IF key \in DOMAIN rangeLabels THEN rangeLabels[key] ELSE key, rangeLabel, sensLabel>>

scenarioRows(scenario) ==
    LET scenarioRanges == OrElse(Member(scenario, "ranges"), JsObj(<<>>, EmptyObj))
        scenarioSensitivity == OrElse(Member(scenario, "sensitivity"), JsObj(<<>>, EmptyObj))
        kept == SelectSeq(orderedRangeKeys, LAMBDA key : Truthy(Member(scenarioRanges, key)))
    IN  [i \in 1..Len(kept) |-> scenarioRow(scenarioRanges, scenarioSensitivity, kept[i])]

\* the texts of one driver: its name, the two deltas and its note, if any
DriverTexts(driver) ==
    <<OrElse(Member(driver, "label"), OrElse(Member(driver, "key"), JsStr("Driver"))).v,
      formatDriverDelta(Member(driver, "home_delta_pct"), Member(driver, "home_delta")),
      formatDriverDelta(Member(driver, "away_delta_pct"), Member(driver, "away_delta"))>>
        \o (IF Truthy(Member(driver, "note")) THEN <<Member(driver, "note").v>> ELSE <<>>)

\* the texts of the entries of a by-market record, or '-' when there are none
ByMarketTexts(byMarket) ==
    IF Truthy(byMarket) /\ Len(byMarket.keys) # 0
    THEN Concat([i \in 1..Len(byMarket.keys) |->
                    <<byMarket.keys[i], formatNum(byMarket.v[byMarket.keys[i]], 3)>>])
    ELSE <<"-">>

NoProOutput == "Nessun output pro disponibile per questo match."

Sections ==
    <<"confidence", "drivers", "tactical", "lineup", "form", "schedule", "kpi", "scenario">>

\* the texts the panel shows, card by card; the static captions are left out
ProAnalysisPanel(analysis) ==
    IF ~Truthy(analysis) THEN Rendered([analysis_pro |-> <<NoProOutput>>])
    ELSE
    LET confidence == Coalesce(Member(analysis, "confidence"), JsObj(<<>>, EmptyObj))
        drivers == Coalesce(Member(analysis, "drivers"), JsArr(<<>>))
        tactical == Coalesce(Member(analysis, "tactical"), JsObj(<<>>, EmptyObj))
        lineup == Coalesce(Member(analysis, "lineup"), JsObj(<<>>, EmptyObj))
        form == Coalesce(Member(analysis, "form"), JsObj(<<>>, EmptyObj))
        schedule == Coalesce(Member(analysis, "schedule"), JsObj(<<>>, EmptyObj))
        kpi == Coalesce(Member(analysis, "kpi"), JsObj(<<>>, EmptyObj))
        scenario == Coalesce(Member(analysis, "scenario"), JsObj(<<>>, EmptyObj))
        tags == OrElse(Member(tactical, "tags"), JsArr(<<>>))
        style == Member(tactical, "style_matchup")
    IN  \* scenario.ranges, confidence.score, drivers.length, ...: reading a
        \* property of undefined or null throws
        IF Nullish(scenario) THEN RenderThrew(UndefinedPropTypeError("ranges"))
        ELSE IF Nullish(confidence) THEN RenderThrew(UndefinedPropTypeError("score"))
        ELSE IF Nullish(drivers) THEN RenderThrew(UndefinedPropTypeError("length"))
        ELSE IF Nullish(tactical) THEN RenderThrew(UndefinedPropTypeError("tempo"))
        ELSE IF Nullish(lineup) THEN RenderThrew(UndefinedPropTypeError("lineup_source"))
        ELSE IF Nullish(form) THEN RenderThrew(UndefinedPropTypeError("xg_for_delta_home"))
        ELSE IF Nullish(schedule) THEN RenderThrew(UndefinedPropTypeError("rest_days_home"))
        ELSE IF Nullish(kpi) THEN RenderThrew(UndefinedPropTypeError("logloss_1x2"))
        ELSE Rendered(
          [confidence |->
               <<formatPct(Member(confidence, "score")),
                 formatPct(Member(confidence, "lineup_coverage")),
                 formatPct(Member(confidence, "form_stability")),
                 formatPct(Member(confidence, "data_quality_score"))>>,
           drivers |->
               IF Len(drivers.v) # 0
               THEN Concat([i \in 1..Len(drivers.v) |-> DriverTexts(drivers.v[i])])
               ELSE <<"Nessun driver disponibile.">>,
           tactical |->
               <<OrElse(Member(tactical, "tempo"), JsStr("-")).v,
                 OrElse(Member(tactical, "matchup"), JsStr("-")).v,
                 OrElse(Member(tactical, "source"), JsStr("-")).v>>
                   \o (IF Len(tags.v) # 0 THEN [i \in 1..Len(tags.v) |-> tags.v[i].v]
                       ELSE <<"Nessun tag tattico.">>)
                   \o (IF Truthy(style)
                       THEN <<OrElse(Member(style, "indicator"), JsStr("neutral")).v,
                              IF Truthy(Member(style, "reason"))
                              THEN "- " \o Member(style, "reason").v ELSE "">>
                       ELSE <<>>),
           scenario |->
               (IF Len(scenarioRows(scenario)) # 0 THEN Concat(scenarioRows(scenario))
                ELSE <<"Nessun range scenario disponibile.">>)
                   \o <<OrElse(Member(scenario, "base_source"), JsStr("n/a")).v>>,
           lineup |->
               <<OrElse(Member(lineup, "lineup_source"), JsStr("-")).v,
                 formatPct(Member(lineup, "lineup_confidence")),
                 formatPct(Member(lineup, "coverage_home")),
                 formatPct(Member(lineup, "coverage_away")),
                 formatPct(Member(lineup, "absence_share_home")),
                 formatPct(Member(lineup, "absence_share_away")),
                 formatPct(Member(lineup, "penalty_home")),
                 formatPct(Member(lineup, "penalty_away"))>>,
           form |->
               <<formatSignedPct(Member(form, "xg_for_delta_home")),
                 formatSignedPct(Member(form, "xg_for_delta_away")),
                 formatSignedPct(Member(form, "xg_against_delta_home")),
                 formatSignedPct(Member(form, "xg_against_delta_away")),
                 formatSignedPct(Member(form, "finishing_delta_form_home")),
                 formatSignedPct(Member(form, "finishing_delta_form_away"))>>,
           schedule |->
               <<formatNum(Member(schedule, "rest_days_home"), 1),
                 formatNum(Member(schedule, "rest_days_away"), 1),
                 formatNum(Member(schedule, "matches_7d_home"), 0),
                 formatNum(Member(schedule, "matches_7d_away"), 0),
                 formatNum(Member(schedule, "matches_14d_home"), 0),
                 formatNum(Member(schedule, "matches_14d_away"), 0)>>,
           kpi |->
               <<formatNum(Member(kpi, "logloss_1x2"), 3),
                 formatNum(Member(kpi, "brier_1x2"), 3),
                 formatNum(Member(kpi, "roi_1x2"), 3)>>
                   \o ByMarketTexts(Member(kpi, "brier_by_market"))
                   \o ByMarketTexts(Member(kpi, "logloss_by_market"))])

(***************************************************************************)
(* The analysis_pro values of the responses: every section left out, sent  *)
(* in part or sent in full.                                                *)
(***************************************************************************)
ConfidenceValues ==
    {JsUndef, JsNull, JsObj(<<>>, EmptyObj),
     JsObj(<<"score", "lineup_coverage", "form_stability", "data_quality_score">>,
           [score |-> JsDec(873), lineup_coverage |-> JsDec(1000),
            form_stability |-> JsNull, data_quality_score |-> JsDec(5)])}

DriversValues ==
    {JsUndef, JsArr(<<>>),
     JsArr(<<JsObj(<<"key", "label", "home_delta_pct", "away_delta", "note">>,
                   [key |-> JsStr("form"), label |-> JsStr("Forma"),
                    home_delta_pct |-> JsDec(42), away_delta |-> JsDec(0 - 130),
                    note |-> JsStr("ultime 5")]),
             JsObj(<<>>, EmptyObj)>>)}

TacticalValues ==
    {JsUndef,
     JsObj(<<"tags", "style_matchup">>,
           [tags |-> JsArr(<<>>), style_matchup |-> JsObj(<<>>, EmptyObj)]),
     JsObj(<<"source", "tags", "tempo", "style_matchup">>,
           [source |-> JsStr("model"), tags |-> JsArr(<<JsStr("pressing")>>),
            tempo |-> JsStr("alto"),
            style_matchup |-> JsObj(<<"indicator", "reason">>,
                                    [indicator |-> JsStr("home"),
                                     reason |-> JsStr("pressing alto")])])}

LineupValues ==
    {JsUndef,
     JsObj(<<"lineup_source", "lineup_confidence", "coverage_home">>,
           [lineup_source |-> JsStr("predicted"), lineup_confidence |-> JsDec(800),
            coverage_home |-> JsDec(915)])}

FormValues ==
    {JsUndef,
     JsObj(<<"xg_for_delta_home", "xg_for_delta_away">>,
           [xg_for_delta_home |-> JsDec(124), xg_for_delta_away |-> JsDec(0 - 50)])}

ScheduleValues ==
    {JsUndef,
     JsObj(<<"rest_days_home", "matches_7d_home">>,
           [rest_days_home |-> JsDec(3000), matches_7d_home |-> JsDec(2000)])}

KpiValues ==
    {JsUndef,
     JsObj(<<"logloss_1x2", "brier_by_market", "logloss_by_market">>,
           [logloss_1x2 |-> JsDec(987),
            brier_by_market |-> JsObj(<<"1x2", "btts">>,
                                      ("1x2" :> JsDec(210)) @@ ("btts" :> JsDec(48))),
            logloss_by_market |-> JsObj(<<>>, EmptyObj)])}

ScenarioValues ==
    {JsUndef,
     JsObj(<<"ranges">>, [ranges |-> JsNull]),
     JsObj(<<"base_source", "ranges", "sensitivity">>,
           [base_source |-> JsStr("model"),
            ranges |-> JsObj(<<"home_win", "draw", "btts_yes", "over_2_5">>,
                             [home_win |-> JsObj(<<"min", "max">>,
                                                 [min |-> JsDec(400), max |-> JsDec(525)]),
                              draw |-> JsObj(<<"min", "max">>,
                                             [min |-> JsDec(250), max |-> JsDec(250)]),
                              btts_yes |-> JsObj(<<"min">>, [min |-> JsDec(500)]),
                              over_2_5 |-> JsObj(<<"min", "max">>,
                                                 [min |-> JsNull, max |-> JsDec(610)])]),
            sensitivity |-> JsObj(<<"home_win">>, [home_win |-> JsDec(31)])])}

AnalysisPros ==
    {JsUndef, JsNull}
        \cup { JsObj(Sections,
                     [confidence |-> c, drivers |-> d, tactical |-> t, lineup |-> l,
                      form |-> f, schedule |-> s, kpi |-> k, scenario |-> sc])
                 : c \in ConfidenceValues, d \in DriversValues, t \in TacticalValues,
                   l \in LineupValues, f \in FormValues, s \in ScheduleValues,
                   k \in KpiValues, sc \in ScenarioValues }

(***************************************************************************)
(* The components that look an enumerated field up in a table of theirs.   *)
(***************************************************************************)
\* the most items a list in a response has
MaxRows == 2

\* the sequences of at most MaxRows items of S
ListsOf(S) == UNION {[1..n -> S] : n \in 0..MaxRows}

\* table[key] of an object literal: undefined when it has no such property
Lookup(table, key) == IF key \in DOMAIN table THEN table[key] ELSE JsUndef

difficultyConfig ==
    [easy |-> [label |-> "Facile", icon |-> "Target",
               color |-> "bg-success/10 text-success border-success/20"],
     medium |-> [label |-> "Media", icon |-> "TrendingUp",
                 color |-> "bg-warning/10 text-warning border-warning/20"],
     hard |-> [label |-> "Difficile", icon |-> "Zap",
               color |-> "bg-destructive/10 text-destructive border-destructive/20"]]

\* the difficulties a ticket of a response carries: the declared ones, and one more
Difficulties == {"easy", "medium", "hard", "extreme"}

Tickets == {[name |-> "Tripla", difficulty |-> d] : d \in Difficulties}

\* the head of the card: icon, name and difficulty badge.  The selections and
\* the stake below it do not depend on the difficulty.
TicketCard(ticket) ==
    LET config == Lookup(difficultyConfig, ticket.difficulty)
    IN  IF config = JsUndef THEN RenderThrew(UndefinedPropTypeError("icon"))
        ELSE Rendered([icon |-> config.icon, name |-> ticket.name,
                       badge |-> config.label, color |-> config.color])

statusConfig ==
    [success |-> [icon |-> "CheckCircle", color |-> "text-success", bg |-> "bg-success/10"],
     error |-> [icon |-> "XCircle", color |-> "text-destructive", bg |-> "bg-destructive/10"],
     skipped |-> [icon |-> "AlertTriangle", color |-> "text-warning", bg |-> "bg-warning/10"]]

\* the statuses a tool run of a response carries: the declared ones, and one more
ToolStatuses == {"success", "error", "skipped", "timeout"}

ToolRuns == {[tool |-> "odds", status |-> st] : st \in ToolStatuses}

Snapshots == {[tool_runs |-> runs] : runs \in ListsOf(ToolRuns)}

\* the list of tool runs of the card: icon, colours and tool of each
AuditSnapshotCard(snapshot) ==
    LET runs == snapshot.tool_runs
    IN  IF \E i \in 1..Len(runs) : Lookup(statusConfig, runs[i].status) = JsUndef
        THEN RenderThrew(UndefinedPropTypeError("icon"))
        ELSE Rendered([i \in 1..Len(runs) |->
                          [icon |-> statusConfig[runs[i].status].icon,
                           color |-> statusConfig[runs[i].status].color,
                           bg |-> statusConfig[runs[i].status].bg,
                           tool |-> runs[i].tool]])

riskConfig ==
    [low |-> [label |-> "Basso", color |-> "bg-success/10 text-success border-success/20"],
     medium |-> [label |-> "Medio", color |-> "bg-warning/10 text-warning border-warning/20"],
     high |-> [label |-> "Alto",
               color |-> "bg-destructive/10 text-destructive border-destructive/20"]]

\* the ratings an opportunity of a response carries: the declared ones, and one more
RiskRatings == {"low", "medium", "high", "extreme"}

\* edges in thousandths
Opportunities == {[edge |-> ed, risk_rating |-> r] : ed \in {21, 64}, r \in RiskRatings}

RECURSIVE SortByEdge(_)
\* [...data].sort((a, b) => b.edge - a.edge): by edge, largest first, items of
\* equal edge in the order they came
SortByEdge(data) ==
    IF data = <<>> THEN <<>>
    ELSE LET last == data[Len(data)]
             front == SortByEdge(SubSeq(data, 1, Len(data) - 1))
             before == SelectSeq(front, LAMBDA o : o.edge >= last.edge)
             after == SelectSeq(front, LAMBDA o : o.edge < last.edge)
         IN  before \o <<last>> \o after

\* the rows of the table: edge and risk badge of each
OpportunitiesTable(data) ==
    LET sortedData == SortByEdge(data)
    IN  IF \E i \in 1..Len(sortedData) : Lookup(riskConfig, sortedData[i].risk_rating) = JsUndef
        THEN RenderThrew(UndefinedPropTypeError("color"))
        ELSE Rendered([i \in 1..Len(sortedData) |->
                          [edge |-> "+" \o toFixed(sortedData[i].edge * 100, 2) \o "%",
                           badge |-> riskConfig[sortedData[i].risk_rating].label,
                           color |-> riskConfig[sortedData[i].risk_rating].color]])

resultConfig ==
    [bet |-> [label |-> "Bet", icon |-> "CheckCircle",
              color |-> "bg-success/10 text-success border-success/20"],
     no_bet |-> [label |-> "No Bet", icon |-> "XCircle",
                 color |-> "bg-warning/10 text-warning border-warning/20"],
     error |-> [label |-> "Errore", icon |-> "AlertTriangle",
                color |-> "bg-destructive/10 text-destructive border-destructive/20"]]

\* the results a run of the audit history carries: the declared ones, and one more
AuditResults == {"bet", "no_bet", "error", "void"}

AuditRuns == {[run_id |-> "run-7", result |-> r] : r \in AuditResults}

\* the head of the card: icon and result badge
AuditRunCard(run) ==
    LET config == Lookup(resultConfig, run.result)
    IN  IF config = JsUndef THEN RenderThrew(UndefinedPropTypeError("icon"))
        ELSE Rendered([icon |-> config.icon, badge |-> config.label,
                       color |-> config.color])

(***************************************************************************)
(* Rendering: a page that has a response mounts a component with props     *)
(* taken from it, and React calls the component with them.                 *)
(***************************************************************************)
Mount(component, props) == [component |-> component, props |-> props, result |-> None]

\* the components the pages mount, over the responses drawn above
Mounted ==
    {Mount("ProAnalysisPanel", analysis) : analysis \in AnalysisPros}
        \cup {Mount("TicketCard", ticket) : ticket \in Tickets}
        \cup {Mount("AuditSnapshotCard", snapshot) : snapshot \in Snapshots}
        \cup {Mount("OpportunitiesTable", data) : data \in ListsOf(Opportunities)}
        \cup {Mount("AuditRunCard", run) : run \in AuditRuns}

InitUI ==
    /\ env \in Envs
    /\ storage \in (IF env.hasWindow THEN Storages ELSE {<<>>})
    /\ call = Idle
    /\ lastOp = [op |-> "none"]
    /\ calls = NoneInFlight
    /\ ui \in Mounted

RenderProAnalysisPanel ==
    /\ ui.component = "ProAnalysisPanel" /\ ui.result = None
    /\ ui' = [ui EXCEPT !.result = ProAnalysisPanel(ui.props)]
    /\ UNCHANGED <<env, storage, call, lastOp, calls>>

RenderTicketCard ==
    /\ ui.component = "TicketCard" /\ ui.result = None
    /\ ui' = [ui EXCEPT !.result = TicketCard(ui.props)]
    /\ UNCHANGED <<env, storage, call, lastOp, calls>>

RenderAuditSnapshotCard ==
    /\ ui.component = "AuditSnapshotCard" /\ ui.result = None
    /\ ui' = [ui EXCEPT !.result = AuditSnapshotCard(ui.props)]
    /\ UNCHANGED <<env, storage, call, lastOp, calls>>

RenderOpportunitiesTable ==
    /\ ui.component = "OpportunitiesTable" /\ ui.result = None
    /\ ui' = [ui EXCEPT !.result = OpportunitiesTable(ui.props)]
    /\ UNCHANGED <<env, storage, call, lastOp, calls>>

RenderAuditRunCard ==
    /\ ui.component = "AuditRunCard" /\ ui.result = None
    /\ ui' = [ui EXCEPT !.result = AuditRunCard(ui.props)]
    /\ UNCHANGED <<env, storage, call, lastOp, calls>>

NextUI ==
    \/ RenderProAnalysisPanel
    \/ RenderTicketCard
    \/ RenderAuditSnapshotCard
    \/ RenderOpportunitiesTable
    \/ RenderAuditRunCard

SpecUI == InitUI /\ [][NextUI]_vars

\* the component has been called with its props
HasRendered(component) == ui.component = component /\ ui.result # None

\* C16: a component given a value outside the declared set of ticket
\* difficulty, tool-run status, risk_rating or audit result renders without
\* failing.
C16_ClosedEnums ==
    (\E component \in {"TicketCard", "AuditSnapshotCard", "OpportunitiesTable",
                       "AuditRunCard"} : HasRendered(component))
        => ~ui.result.threw

\* C17: when analysis_pro is absent the Pro panel shows its message, and when
\* one of its sections is absent the panel shows, in that section's card,
\* placeholders and nothing else; in neither case does rendering fail.
Placeholders ==
    {"-", "n/a", "Nessun driver disponibile.", "Nessun tag tattico.",
     "Nessun range scenario disponibile."}

C17_Placeholders ==
    HasRendered("ProAnalysisPanel") =>
        /\ ~ui.result.threw
        /\ Nullish(ui.props) => ui.result.value = [analysis_pro |-> <<NoProOutput>>]
        /\ ~Nullish(ui.props) =>
              \A i \in 1..Len(Sections) :
                  Nullish(Member(ui.props, Sections[i])) =>
                      LET card == ui.result.value[Sections[i]]
                      IN  card # <<>> /\ \A j \in 1..Len(card) : card[j] \in Placeholders

\* confidence and scenario are absent, drivers and kpi are there
C17_Witness ==
    /\ HasRendered("ProAnalysisPanel") /\ ~Nullish(ui.props)
    /\ Member(ui.props, "confidence") = JsUndef /\ Member(ui.props, "scenario") = JsUndef
    /\ Truthy(Member(ui.props, "kpi")) /\ Member(ui.props, "drivers").t = "array"
    /\ ~ui.result.threw
    /\ ui.result.value.confidence = <<"-", "-", "-", "-">>
    /\ ui.result.value.scenario = <<"Nessun range scenario disponibile.", "n/a">>
    /\ ui.result.value.kpi = <<"0.987", "-", "-", "1x2", "0.210", "btts", "0.048", "-">>

(***************************************************************************)
(* What a page shows when the wrapper call it made rejects with error:     *)
(* the title and the message of its ErrorState, and the buttons that issue *)
(* the request again.                                                      *)
(***************************************************************************)
\* <ErrorState title=... message=... onRetry=... />: the Riprova button is
\* there only when onRetry is
ErrorState(title, message, onRetry) ==
    [title |-> title, message |-> message,
     buttons |-> IF onRetry THEN {"Riprova"} ELSE {}]

\* if (error) return <ErrorState title="Errore caricamento" message={error.message}
\*                               onRetry={() => mutate()} />
DashboardPage(error) == ErrorState("Errore caricamento", error.message, TRUE)

\* the slate, odds-risk, players and audit pages:
\* {error && <ErrorState title="Errore" message={error.message} onRetry={() => mutate()} />}
ListPage(error) == ErrorState("Errore", error.message, TRUE)

\* {error && <ErrorState title="Errore" message="Impossibile caricare i dettagli" />}
AuditDetailDialog(error) == ErrorState("Errore", "Impossibile caricare i dettagli", FALSE)

\* setError(err instanceof Error ? err.message : ...): every value apiFetch
\* rejects with is an Error.  <ErrorState title="Errore" message={error} />
\* has no onRetry; the form above it keeps its submit button, which calls
\* analyzeMatch again.
AnalyzePage(error) ==
    [ErrorState("Errore", error.message, FALSE) EXCEPT !.buttons = @ \cup {"Analizza Match"}]

\* the wrappers the pages call
PageWrappers ==
    {"getDashboardKPIs", "analyzeMatch", "getSlate", "getOddsRisk",
     "getPlayerProjections", "getAuditHistory", "getAuditDetail"}

ErrorView(wrapper, error) ==
    CASE wrapper = "getDashboardKPIs" -> DashboardPage(error)
      [] wrapper = "analyzeMatch" -> AnalyzePage(error)
      [] wrapper = "getAuditDetail" -> AuditDetailDialog(error)
      [] OTHER -> ListPage(error)

\* C20: a page whose wrapper call has failed shows the failure's message and
\* offers a button that issues the request again.
C20_MessageAndRetry ==
    (Done /\ call.outcome.kind = "rejected" /\ call.wrapper \in PageWrappers)
        => LET view == ErrorView(call.wrapper, call.outcome.error)
           IN  view.message = call.outcome.error.message /\ view.buttons # {}

(***************************************************************************)
(* The session: UILayout (app/ui/layout.tsx) around the routes, the login  *)
(* page and the sidebar's logout.  ui holds the state of the layout and of *)
(* the login page:                                                         *)
(*   pathname, isChecking   usePathname() and the layout's state           *)
(*   effect      the layout's effect is due (mount, or pathname changed)   *)
(*   checked     what isAuthenticated() gave at the check made for this    *)
(*               pathname: "none" while no check has been made             *)
(*   pending     the route router.push / router.replace was asked for      *)
(*   token, error, isLoading   the state of the login page                 *)
(*   submitted   <<token>> while handleSubmit waits for its timer          *)
(*   loggedOut   handleLogout has run and setToken has not since           *)
(***************************************************************************)
LoginRoute == "/ui/login"

\* the routes of the sidebar's navItems, as far as the layout tells them apart
SidebarRoutes == {"/ui", "/ui/audit"}

Routes == {LoginRoute} \cup SidebarRoutes

\* what the user types into the token field
LoginInputs == {"", "  ", " abc ", "xyz"}

\* String.prototype.trim on the strings drawn above
Trim(s) == CASE s = "  " -> ""
             [] s = " abc " -> "abc"
             [] s = " Milan " -> "Milan"
             [] s = " Serie A" -> "Serie A"
             [] OTHER -> s

\* the token handed to setToken, untrimmed
TokenToStoreRaw(token) == token

\* setToken(token.trim())
TokenToStore(token) == Trim(token)

\* the document loaded at path: layout and page freshly mounted
Fresh(path, loggedOut) ==
    [component |-> "UILayout", pathname |-> path, isChecking |-> TRUE, effect |-> TRUE,
     checked |-> "none", pending |-> "", token |-> "", error |-> "",
     isLoading |-> FALSE, submitted |-> <<>>, loggedOut |-> loggedOut]

\* what UILayout returns: the loading state, the login page alone, or the
\* sidebar with the page
LayoutView(u) ==
    IF u.isChecking /\ u.pathname # LoginRoute THEN "checking"
    ELSE IF u.pathname = LoginRoute THEN "login"
    ELSE "content"

\* the route changes within the document: the pages are swapped, the layout
\* stays mounted and keeps its state, its effect is due again
RouteChanged(u, path) ==
    IF path = u.pathname THEN [u EXCEPT !.pending = ""]
    ELSE [u EXCEPT !.pathname = path, !.effect = TRUE, !.checked = "none",
                   !.pending = "", !.token = "", !.error = "", !.isLoading = FALSE]

InitSession ==
    /\ env \in {e \in Envs : e.hasWindow}
    /\ storage \in Storages
    /\ call = Idle
    /\ lastOp = [op |-> "none"]
    /\ calls = NoneInFlight
    /\ ui \in {Fresh(path, FALSE) : path \in Routes}

\* the browser loads a route afresh: a typed URL, a reload
Load(path) ==
    /\ ui' = Fresh(path, ui.loggedOut)
    /\ lastOp' = [op |-> "load"]
    /\ UNCHANGED <<env, storage, call, calls>>

\* a Link of the sidebar is clicked
ClickLink(path) ==
    /\ LayoutView(ui) = "content"
    /\ path # ui.pathname
    /\ ui' = RouteChanged(ui, path)
    /\ lastOp' = [op |-> "Link"]
    /\ UNCHANGED <<env, storage, call, calls>>

\* the router carries out the push or replace it was asked for
RouterNavigates ==
    /\ ui.pending # ""
    /\ ui' = RouteChanged(ui, ui.pending)
    /\ lastOp' = [op |-> "router"]
    /\ UNCHANGED <<env, storage, call, calls>>

\* useEffect(() => { ... }, [pathname, router]) of UILayout
LayoutEffect ==
    /\ ui.effect
    /\ ui' = IF ui.pathname = LoginRoute
             THEN [ui EXCEPT !.effect = FALSE, !.isChecking = FALSE]
             ELSE IF ~isAuthenticated.value
             THEN [ui EXCEPT !.effect = FALSE, !.checked = "no token",
                             !.pending = LoginRoute]
             ELSE [ui EXCEPT !.effect = FALSE, !.checked = "token",
                             !.isChecking = FALSE]
    /\ lastOp' = [op |-> "useEffect"]
    /\ UNCHANGED <<env, storage, call, calls>>

\* onChange of the token field
TypeToken(input) ==
    /\ LayoutView(ui) = "login"
    /\ ui' = [ui EXCEPT !.token = input]
    /\ lastOp' = [op |-> "onChange"]
    /\ UNCHANGED <<env, storage, call, calls>>

\* handleSubmit up to its await; the submit button is disabled while isLoading
HandleSubmit ==
    /\ LayoutView(ui) = "login"
    /\ ~ui.isLoading
    /\ IF Trim(ui.token) = ""
       THEN /\ ui' = [ui EXCEPT !.error = "Inserisci un token valido"]
            /\ lastOp' = [op |-> "handleSubmit", phase |-> "refused", token |-> ui.token]
       ELSE /\ ui' = [ui EXCEPT !.error = "", !.isLoading = TRUE,
                                !.submitted = <<ui.token>>]
            /\ lastOp' = [op |-> "handleSubmit", phase |-> "waiting", token |-> ui.token]
    /\ UNCHANGED <<env, storage, call, calls>>

\* handleSubmit after its timer: setToken(token.trim()); router.push('/ui')
HandleSubmitResumes ==
    /\ ui.submitted # <<>>
    /\ storage' = setToken(TokenToStore(ui.submitted[1])).store
    /\ ui' = [ui EXCEPT !.submitted = <<>>, !.pending = "/ui", !.loggedOut = FALSE]
    /\ lastOp' = [op |-> "handleSubmit", phase |-> "stored", token |-> ui.submitted[1]]
    /\ UNCHANGED <<env, call, calls>>

\* handleLogout of the sidebar leaving the token where it is
handleLogoutKeepsToken == storage

\* removeToken(), the first statement of handleLogout
handleLogoutRemoves == removeToken.store

\* handleLogout: removeToken(); window.location.href = '/ui/login'
HandleLogout ==
    /\ LayoutView(ui) = "content"
    /\ storage' = handleLogoutRemoves
    /\ ui' = Fresh(LoginRoute, TRUE)
    /\ lastOp' = [op |-> "handleLogout"]
    /\ UNCHANGED <<env, call, calls>>

\* the sidebar of another tab of the browser logs out: removeToken() on the
\* localStorage the tabs share
LogoutElsewhere ==
    /\ storage # <<>>
    /\ storage' = removeToken.store
    /\ lastOp' = [op |-> "removeToken", threw |-> FALSE]
    /\ UNCHANGED <<env, call, calls, ui>>

\* the calls the pages of the sidebar's routes make
SessionInvocations ==
    {inv \in Invocations : inv.wrapper \in {"getDashboardKPIs", "getAuditDetail"}}

SessionResponses ==
    {Response(200, "OK", Decodes(Payload)),
     Response(401, "Unauthorized",
              Decodes(ApiError("api_error", JsStr("Token non valido"), 401)))}

NextSession ==
    \/ \E path \in Routes : Load(path)
    \/ \E path \in SidebarRoutes : ClickLink(path)
    \/ RouterNavigates
    \/ LayoutEffect
    \/ \E input \in LoginInputs : TypeToken(input)
    \/ HandleSubmit
    \/ HandleSubmitResumes
    \/ HandleLogout
    \/ LogoutElsewhere
    \/ \E inv \in SessionInvocations : Invoke(inv)
    \/ \E response \in SessionResponses : FetchResolves(response)
    \/ JsonSettles
    \/ Return

SpecSession == InitSession /\ [][NextSession]_vars

\* C21: the layout shows the sidebar and the page of a route other than
\* /ui/login only when the authentication check made for that route found a
\* token; when no token is stored no page content is shown for the route,
\* neither after the check has found none nor while the check is still due.
C21_ContentOnlyAfterCheck ==
    LayoutView(ui) = "content"
        => ui.checked # "no token" /\ (ui.checked = "none" => isAuthenticated.value)

\* C25: from handleLogout until setToken is called again no token is stored
\* and isAuthenticated() is false; handleLogout leaves the page at /ui/login
\* with the token gone; and a wrapper call made in between is rejected as
\* unauthenticated with no request issued.
C25_LoggedOut ==
    /\ [](ui.loggedOut => storage = <<>> /\ isAuthenticated.value = FALSE)
    /\ [](lastOp.op = "handleLogout" => ui.loggedOut /\ ui.pathname = LoginRoute)
    /\ [][(ui.loggedOut /\ call = Idle /\ call' # Idle)
              => /\ call'.pc = "done" /\ call'.requests = <<>>
                 /\ call'.outcome = Rejected(Error(NotAuthenticatedMessage))]_vars

\* after a logout a page's call has been refused without a request
C25_Witness ==
    /\ ui.loggedOut /\ ui.pathname = LoginRoute
    /\ Done /\ call.requests = <<>> /\ call.storedAtCall = <<>>
    /\ call.outcome = Rejected(Error(NotAuthenticatedMessage))

\* C26: a submit of a blank token field sets the error and stores nothing,
\* changes no stored token and asks for no navigation; a submit of a non-blank
\* field changes nothing stored while it waits, then stores the trimmed
\* input and asks for /ui in the same step; no step of either issues a call.
C26_HandleSubmit ==
    /\ []((lastOp.op = "handleSubmit" /\ lastOp.phase = "refused")
             => /\ Trim(lastOp.token) = ""
                /\ ui.error = "Inserisci un token valido"
                /\ ui.pathname = LoginRoute /\ ui.pending = "" /\ ui.submitted = <<>>)
    /\ []((lastOp.op = "handleSubmit" /\ lastOp.phase = "stored")
             => /\ lastOp.token \in {" abc ", "xyz"}
                /\ storage = <<IF lastOp.token = " abc " THEN "abc" ELSE "xyz">>
                /\ ui.pending = "/ui")
    /\ [][(lastOp' # lastOp /\ lastOp'.op = "handleSubmit")
             => /\ call' = call
                /\ lastOp'.phase \in {"refused", "waiting"}
                      => storage' = storage /\ ui'.pending = ui.pending
                            /\ ui'.pathname = ui.pathname]_vars

\* " abc " was submitted over a stored token: "abc" is stored and /ui asked for
C26_Witness ==
    /\ lastOp = [op |-> "handleSubmit", phase |-> "stored", token |-> " abc "]
    /\ storage = <<"abc">> /\ ui.pending = "/ui" /\ ui.pathname = LoginRoute

(***************************************************************************)
(* The audit page (app/ui/audit/page.tsx).  ui holds its page number and   *)
(* what useSWR gives it for the key ['audit-history', page, perPage]: data *)
(* and error, None while there is none.  A new key starts without data.    *)
(***************************************************************************)
perPage == 20

\* the totals the audit-history responses report
AuditTotals == {0, 20, 41}

\* an AuditHistoryResponse, as far as the page's pagination reads it
AuditHistoryResponse(total, page) ==
    JsObj(<<"runs", "total", "page", "per_page">>,
          [runs |-> JsArr(<<>>), total |-> JsNum(total), page |-> JsNum(page),
           per_page |-> JsNum(perPage)])

AuditResponses ==
    {Response(200, "OK", Decodes(AuditHistoryResponse(total, 1))) : total \in AuditTotals}
        \cup {Response(500, "Internal Server Error", Undecodable)}

\* Math.ceil(total / perPage)
CeilDiv(total, per) == (total + per - 1) \div per

\* const totalPages = data ? Math.ceil(data.total / perPage) : 1
totalPages(u) == IF u.data # None THEN CeilDiv(Member(u.data, "total").v, perPage) ELSE 1

Min(a, b) == IF a <= b THEN a ELSE b
Max(a, b) == IF a >= b THEN a ELSE b

\* useSWR's isLoading: a request is out and there is no data yet
AuditIsLoading(u) == u.data = None /\ u.error = None

\* the pagination buttons are rendered: !isLoading && !error && data
PaginationShown(u) == ~AuditIsLoading(u) /\ u.error = None /\ u.data # None

AuditPageAt(page) == [component |-> "AuditPage", page |-> page, data |-> None, error |-> None]

InitAudit ==
    /\ env \in {e \in Envs : e.hasWindow}
    /\ storage \in Storages
    /\ call = Idle
    /\ lastOp = [op |-> "none"]
    /\ calls = NoneInFlight
    /\ ui = AuditPageAt(1)

\* useSWR calls its fetcher for the key: () => getAuditHistory(page, perPage)
AuditFetch ==
    /\ AuditIsLoading(ui) /\ call = Idle
    /\ call' = ApiFetchStart(Called(<<JsNum(ui.page), JsNum(perPage)>>,
                                    getAuditHistory(JsNum(ui.page), JsNum(perPage))))
    /\ lastOp' = [op |-> "getAuditHistory"]
    /\ UNCHANGED <<env, storage, calls, ui>>

\* the fetcher's promise has settled: useSWR hands the page data or error
AuditSettles ==
    /\ Done
    /\ ui' = IF call.outcome.kind = "resolved"
             THEN [ui EXCEPT !.data = call.outcome.value]
             ELSE [ui EXCEPT !.error = call.outcome.error]
    /\ call' = Idle
    /\ UNCHANGED <<env, storage, lastOp, calls>>

\* onClick={() => setPage((p) => Math.max(1, p - 1))}, disabled={page === 1}
ClickPrevious ==
    /\ PaginationShown(ui) /\ ui.page # 1
    /\ ui' = IF Max(1, ui.page - 1) = ui.page THEN ui
             ELSE AuditPageAt(Max(1, ui.page - 1))
    /\ lastOp' = [op |-> "previous"]
    /\ UNCHANGED <<env, storage, call, calls>>

\* onClick={() => setPage((p) => Math.min(totalPages, p + 1))},
\* disabled={page === totalPages}
ClickNext ==
    /\ PaginationShown(ui) /\ ui.page # totalPages(ui)
    /\ ui' = IF Min(totalPages(ui), ui.page + 1) = ui.page THEN ui
             ELSE AuditPageAt(Min(totalPages(ui), ui.page + 1))
    /\ lastOp' = [op |-> "next"]
    /\ UNCHANGED <<env, storage, call, calls>>

\* onRetry={() => mutate()} of the error state
AuditRetry ==
    /\ ui.error # None
    /\ ui' = [ui EXCEPT !.error = None]
    /\ lastOp' = [op |-> "mutate"]
    /\ UNCHANGED <<env, storage, call, calls>>

NextAudit ==
    \/ AuditFetch
    \/ \E response \in AuditResponses : FetchResolves(response)
    \/ \E error \in TransportErrors : FetchRejects(error)
    \/ JsonSettles
    \/ AuditSettles
    \/ ClickPrevious
    \/ ClickNext
    \/ AuditRetry

SpecAudit == InitAudit /\ [][NextAudit]_vars

\* C22: the audit page number is at least 1 and at most max(1, totalPages) of
\* the loaded response, also when that reports total = 0, and getAuditHistory
\* is never called with a page below 1.
C22_PageInRange ==
    /\ ui.page >= 1
    /\ ui.data # None => ui.page <= Max(1, totalPages(ui))
    /\ call # Idle => call.args[1].v >= 1

(***************************************************************************)
(* The Analyze page (app/ui/analyze/page.tsx).  ui holds the three fields  *)
(* of its form and isLoading, error and result, and, to tell what is shown *)
(* from what was asked, the outcome of the request submitted last (latest, *)
(* None until one has settled).                                            *)
(***************************************************************************)
TeamInputs == {"", "  ", "Inter", " Milan "}

CompetitionInputs == {"", "  ", " Serie A"}

\* what the analyze endpoint answers
AnalyzeResponses ==
    {Response(200, "OK", Decodes(AnalyzePayload)),
     Response(200, "OK", Decodes(JsNull)),
     Response(500, "Internal Server Error",
              Decodes(ApiError("api_error", JsStr("Simulazione fallita"), 500)))}

\* the request built from the fields as they are, untrimmed
AnalyzeRequestUntrimmed(u) ==
    JsObj(<<"home_team", "away_team", "competition">>,
          [home_team |-> JsStr(u.homeTeam), away_team |-> JsStr(u.awayTeam),
           competition |-> OrElse(JsStr(u.competition), JsUndef)])

\* { home_team: homeTeam.trim(), away_team: awayTeam.trim(),
\*   competition: competition.trim() || undefined }
AnalyzeRequestOf(u) ==
    JsObj(<<"home_team", "away_team", "competition">>,
          [home_team |-> JsStr(Trim(u.homeTeam)), away_team |-> JsStr(Trim(u.awayTeam)),
           competition |-> OrElse(JsStr(Trim(u.competition)), JsUndef)])

\* the views, were the error state displayed whatever result is
AnalyzeViewsErrorOverResult(u) ==
    {v \in {"loading", "empty", "error", "result"} :
        \/ v = "loading" /\ u.isLoading
        \/ v = "empty" /\ ~u.isLoading /\ ~Truthy(u.result) /\ ~Truthy(u.error)
        \/ v = "error" /\ ~u.isLoading /\ Truthy(u.error)
        \/ v = "result" /\ ~u.isLoading /\ Truthy(u.result)}

\* the views of the results area that are displayed
AnalyzeViews(u) ==
    {v \in {"loading", "empty", "error", "result"} :
        \/ v = "loading" /\ u.isLoading
        \/ v = "empty" /\ ~u.isLoading /\ ~Truthy(u.result) /\ ~Truthy(u.error)
        \/ v = "error" /\ ~u.isLoading /\ Truthy(u.error) /\ ~Truthy(u.result)
        \/ v = "result" /\ ~u.isLoading /\ Truthy(u.result)}

InitAnalyze ==
    /\ env \in {e \in Envs : e.hasWindow}
    /\ storage \in {<<>>, <<"abc">>}
    /\ call = Idle
    /\ lastOp = [op |-> "none"]
    /\ calls = NoneInFlight
    /\ ui \in {[component |-> "AnalyzePage", homeTeam |-> h, awayTeam |-> a,
                competition |-> "", isLoading |-> FALSE, error |-> JsNull,
                result |-> JsNull, latest |-> None]
                 : h \in {"", "Inter"}, a \in {"", " Milan "}}

\* onChange of the three fields
TypeHomeTeam(input) ==
    /\ ui' = [ui EXCEPT !.homeTeam = input]
    /\ lastOp' = [op |-> "onChange"]
    /\ UNCHANGED <<env, storage, call, calls>>

TypeAwayTeam(input) ==
    /\ ui' = [ui EXCEPT !.awayTeam = input]
    /\ lastOp' = [op |-> "onChange"]
    /\ UNCHANGED <<env, storage, call, calls>>

TypeCompetition(input) ==
    /\ ui' = [ui EXCEPT !.competition = input]
    /\ lastOp' = [op |-> "onChange"]
    /\ UNCHANGED <<env, storage, call, calls>>

\* handleAnalyze up to its await; the submit button is disabled while isLoading
HandleAnalyze ==
    /\ ~ui.isLoading
    /\ IF Trim(ui.homeTeam) = "" \/ Trim(ui.awayTeam) = ""
       THEN /\ ui' = [ui EXCEPT !.error = JsStr("Inserisci entrambe le squadre")]
            /\ lastOp' = [op |-> "handleAnalyze", phase |-> "refused"]
            /\ call' = call
       ELSE /\ ui' = [ui EXCEPT !.error = JsNull, !.isLoading = TRUE]
            /\ lastOp' = [op |-> "handleAnalyze", phase |-> "called"]
            /\ call' = ApiFetchStart(Called(<<AnalyzeRequestOf(ui)>>,
                                            analyzeMatch(AnalyzeRequestOf(ui))))
    /\ UNCHANGED <<env, storage, calls>>

\* handleAnalyze after its await: setResult(data), or setError(err.message) --
\* every value apiFetch rejects with is an Error -- and setIsLoading(false)
HandleAnalyzeResumes ==
    /\ Done
    /\ ui' = IF call.outcome.kind = "resolved"
             THEN [ui EXCEPT !.result = call.outcome.value, !.isLoading = FALSE,
                             !.latest = call.outcome]
             ELSE [ui EXCEPT !.error = JsStr(call.outcome.error.message),
                             !.isLoading = FALSE, !.latest = call.outcome]
    /\ call' = Idle
    /\ UNCHANGED <<env, storage, lastOp, calls>>

NextAnalyze ==
    \/ \E input \in TeamInputs : TypeHomeTeam(input)
    \/ \E input \in TeamInputs : TypeAwayTeam(input)
    \/ \E input \in CompetitionInputs : TypeCompetition(input)
    \/ HandleAnalyze
    \/ \E response \in AnalyzeResponses : FetchResolves(response)
    \/ \E error \in TransportErrors : FetchRejects(error)
    \/ JsonSettles
    \/ HandleAnalyzeResumes

SpecAnalyze == InitAnalyze /\ [][NextAnalyze]_vars

\* C23: while no analyze request is in flight, what the page displays is the
\* outcome of the valid request submitted last: its result when it succeeded,
\* the error state when it failed.
C23_LatestOutcomeShown ==
    (~ui.isLoading /\ ui.latest # None)
        => IF ui.latest.kind = "resolved"
           THEN Truthy(ui.latest.value)
                    => AnalyzeViews(ui) = {"result"} /\ ui.result = ui.latest.value
           ELSE AnalyzeViews(ui) = {"error"}

\* C24: whatever isLoading, error and result are, exactly one of the four
\* views is displayed.
C24_ExactlyOneView == Cardinality(AnalyzeViews(ui)) = 1

\* a request has failed after an earlier one succeeded: error and result are
\* both set
C24_Witness ==
    /\ ~ui.isLoading /\ Truthy(ui.error) /\ Truthy(ui.result)
    /\ ui.latest # None /\ ui.latest.kind = "rejected"
    /\ Cardinality(AnalyzeViews(ui)) = 1

\* C27: a submit with a blank home or away team makes no call, sets the error,
\* and leaves isLoading false and the result as it was; any other submit
\* calls analyzeMatch once, with both names trimmed and with competition left
\* out of the body when its field is blank.
C27_HandleAnalyze ==
    [][LET name(s) == IF s = " Milan " THEN "Milan" ELSE s
           blank(s) == s \in {"", "  "}
           competition == IF blank(ui.competition) THEN ""
                          ELSE ",\"competition\":\"Serie A\""
       IN  (lastOp' # lastOp /\ lastOp'.op = "handleAnalyze")
              => IF blank(ui.homeTeam) \/ blank(ui.awayTeam)
                 THEN /\ lastOp'.phase = "refused"
                      /\ call' = call
                      /\ ui'.error = JsStr("Inserisci entrambe le squadre")
                      /\ ~ui'.isLoading /\ ui'.result = ui.result
                 ELSE /\ lastOp'.phase = "called"
                      /\ call = Idle /\ call'.wrapper = "analyzeMatch"
                      /\ Len(call'.requests) <= 1
                      /\ Member(call'.args[1], "home_team") = JsStr(name(ui.homeTeam))
                      /\ Member(call'.args[1], "away_team") = JsStr(name(ui.awayTeam))
                      /\ blank(ui.competition)
                            => Member(call'.args[1], "competition") = JsUndef
                      /\ call'.requests # <<>>
                            => call'.requests[1].init.body
                                  = JsStr("{\"home_team\":\"" \o name(ui.homeTeam)
                                            \o "\",\"away_team\":\"" \o name(ui.awayTeam)
                                            \o "\"" \o competition \o "}")]_vars

\* Inter against " Milan " with a blank competition has been submitted
C27_Witness ==
    /\ lastOp = [op |-> "handleAnalyze", phase |-> "called"]
    /\ ui.awayTeam = " Milan " /\ ui.competition = "  " /\ ui.isLoading
    /\ call # Idle /\ call.requests # <<>>
    /\ call.requests[1].init.body = JsStr("{\"home_team\":\"Inter\",\"away_team\":\"Milan\"}")

(***************************************************************************)
(* The odds-risk page (app/ui/odds-risk/page.tsx).  ui holds the draft     *)
(* filters, the applied filters, whether the two are one object (shared),  *)
(* the key useSWR fetched last, and data and error.  tick changes at every *)
(* step of the page, so that two steps alike are still told apart.         *)
(***************************************************************************)
FilterKeys == <<"min_edge", "max_odds", "min_probability", "confidence_level", "bankroll">>

\* the object of useState and of handleResetFilters
defaultFilters ==
    JsObj(FilterKeys,
          [min_edge |-> [t |-> "number", milli |-> 20],
           max_odds |-> [t |-> "number", milli |-> 5000],
           min_probability |-> [t |-> "number", milli |-> 300],
           confidence_level |-> [t |-> "number", milli |-> 900],
           bankroll |-> JsNum(1000)])

\* { ...o, [k]: v }
SetMember(o, k, v) ==
    JsObj(IF k \in DOMAIN o.v THEN o.keys ELSE Append(o.keys, k),
          Spread(o.v, [x \in {k} |-> v]))

\* what the controls pass to setFilters: a slider value / 100 (min_edge; the
\* sliders of max_odds, min_probability and confidence_level call setFilters
\* the same way), the bankroll Number(e.target.value), a select undefined for
\* 'all' and value.split(',') otherwise
FilterEdits ==
    {<<"min_edge", [t |-> "number", milli |-> 50]>>,
     <<"bankroll", JsNum(500)>>,
     <<"markets", JsUndef>>,
     <<"markets", JsArr(<<JsStr("1X2")>>)>>,
     <<"competitions", JsArr(<<JsStr("Serie A")>>)>>}

\* ['odds-risk', JSON.stringify(appliedFilters)]
SWRKey(u) == JsStr(JSON_stringify(u.appliedFilters))

\* the fetcher, were it to pass the draft filters
RequestDraftFilters(u) == u.filters

\* () => getOddsRisk(appliedFilters)
RequestFilters(u) == u.appliedFilters

OddsRiskResponses ==
    {Response(200, "OK", Decodes(JsObj(<<"opportunities">>, [opportunities |-> JsArr(<<>>)]))),
     Response(500, "Internal Server Error",
              Decodes(ApiError("api_error", JsStr("Quote non disponibili"), 500)))}

\* useSWR has fetched for the key of this render
KeyFetched == ui.key = SWRKey(ui)

InitOddsRisk ==
    /\ env \in {e \in Envs : e.hasWindow /\ e.baseUrl = JsUndef}
    /\ storage \in {<<>>, <<"abc">>}
    /\ call = Idle
    /\ lastOp = [op |-> "none"]
    /\ calls = NoneInFlight
    /\ ui = [component |-> "OddsRiskPage", filters |-> defaultFilters,
             appliedFilters |-> defaultFilters, shared |-> TRUE, key |-> None,
             data |-> None, error |-> None, tick |-> 0]

\* useSWR after a render with a key it has not fetched for: the fetcher is
\* called; a new key has no data yet
SWRFetch ==
    /\ ~KeyFetched
    /\ call' = ApiFetchStart(Called(<<RequestFilters(ui)>>, getOddsRisk(RequestFilters(ui))))
    /\ ui' = [ui EXCEPT !.key = SWRKey(ui), !.data = None, !.error = None,
                        !.tick = 1 - @]
    /\ lastOp' = [op |-> "fetch"]
    /\ UNCHANGED <<env, storage, calls>>

\* the request settles: data or error
SWRSettles ==
    /\ KeyFetched /\ Done
    /\ ui' = IF call.outcome.kind = "resolved"
             THEN [ui EXCEPT !.data = call.outcome.value, !.error = None]
             ELSE [ui EXCEPT !.error = JsStr(call.outcome.error.message)]
    /\ call' = Idle
    /\ lastOp' = [op |-> "settled"]
    /\ UNCHANGED <<env, storage, calls>>

\* a control of the filters card: setFilters({ ...filters, [k]: v })
EditFilter(k, v) ==
    /\ KeyFetched
    /\ ui' = [ui EXCEPT !.filters = SetMember(ui.filters, k, v), !.shared = FALSE,
                        !.tick = 1 - @]
    /\ lastOp' = [op |-> "setFilters"]
    /\ UNCHANGED <<env, storage, call, calls>>

\* setAppliedFilters({ ...filters })
HandleApplyFilters ==
    /\ KeyFetched
    /\ ui' = [ui EXCEPT !.appliedFilters = JsObj(ui.filters.keys, Spread(ui.filters.v, EmptyObj)),
                        !.shared = FALSE, !.tick = 1 - @]
    /\ lastOp' = [op |-> "handleApplyFilters"]
    /\ UNCHANGED <<env, storage, call, calls>>

\* setFilters(defaultFilters); setAppliedFilters(defaultFilters)
HandleResetFilters ==
    /\ KeyFetched
    /\ ui' = [ui EXCEPT !.filters = defaultFilters, !.appliedFilters = defaultFilters,
                        !.shared = TRUE, !.tick = 1 - @]
    /\ lastOp' = [op |-> "handleResetFilters"]
    /\ UNCHANGED <<env, storage, call, calls>>

\* the Aggiorna button, disabled while isLoading: mutate() calls the fetcher
Mutate ==
    /\ KeyFetched
    /\ call = Idle \/ (Done /\ ui.data # None)
    /\ call' = ApiFetchStart(Called(<<RequestFilters(ui)>>, getOddsRisk(RequestFilters(ui))))
    /\ ui' = [ui EXCEPT !.tick = 1 - @]
    /\ lastOp' = [op |-> "mutate"]
    /\ UNCHANGED <<env, storage, calls>>

NextOddsRisk ==
    \/ SWRFetch
    \/ \E response \in OddsRiskResponses : FetchResolves(response)
    \/ \E error \in TransportErrors : FetchRejects(error)
    \/ JsonSettles
    \/ SWRSettles
    \/ \E edit \in FilterEdits : EditFilter(edit[1], edit[2])
    \/ HandleApplyFilters
    \/ HandleResetFilters
    \/ Mutate

SpecOddsRisk == InitOddsRisk /\ [][NextOddsRisk]_vars

\* C28: getOddsRisk is always called with appliedFilters; a filter control
\* changes the draft filters only, and neither appliedFilters nor the request
\* key nor the requests; Apply makes appliedFilters a copy of the draft; Reset
\* makes both the defaults, without markets and competitions.
C28_DraftAndApplied ==
    [][ui'.tick # ui.tick
          => /\ lastOp'.op \in {"fetch", "mutate"}
                  => /\ call'.wrapper = "getOddsRisk"
                     /\ call'.args = <<ui.appliedFilters>>
                     /\ ui'.appliedFilters = ui.appliedFilters
                     /\ call'.requests # <<>>
                          => call'.requests[1].init.body
                                = JsStr(JSON_stringify(ui.appliedFilters))
             /\ lastOp'.op = "setFilters"
                  => /\ ui'.appliedFilters = ui.appliedFilters
                     /\ SWRKey(ui') = SWRKey(ui) /\ ui'.key = ui.key
                     /\ call' = call
             /\ lastOp'.op = "handleApplyFilters"
                  => /\ ui'.appliedFilters = ui.filters /\ ui'.filters = ui.filters
                     /\ ~ui'.shared
             /\ lastOp'.op = "handleResetFilters"
                  => /\ ui'.filters = ui'.appliedFilters
                     /\ ui'.filters.keys = FilterKeys
                     /\ JSON_stringify(ui'.filters)
                          = "{\"min_edge\":0.02,\"max_odds\":5,\"min_probability\":0.3,"
                              \o "\"confidence_level\":0.9,\"bankroll\":1000}"]_vars

\* a request is in flight with the filters applied earlier while the draft,
\* edited since, differs from them
C28_Witness ==
    /\ lastOp.op = "setFilters"
    /\ call # Idle /\ call.pc = "fetch"
    /\ ui.appliedFilters # defaultFilters /\ ui.filters # ui.appliedFilters
    /\ call.args = <<ui.appliedFilters>>
    /\ call.requests[1].init.body
          = JsStr("{\"min_edge\":0.05,\"max_odds\":5,\"min_probability\":0.3,"
                    \o "\"confidence_level\":0.9,\"bankroll\":1000,\"markets\":[\"1X2\"]}")

(***************************************************************************)
(* The result tables: OpportunitiesTable of the odds-risk page, the        *)
(* EdgeAnalysisTable component and PlayersTable of the players page.  ui   *)
(* holds the array the page passed (props, kept as it was passed), that    *)
(* array as it is after the table rendered (data), and the rows displayed, *)
(* in order (rows, an array, None before the render).                      *)
(***************************************************************************)
\* the longest array a table is given
MaxTableRows == 3

RowIds == {"a", "b", "c"}

\* edge and expected_gi, in thousandths
SortKeys == {-10, 21, 64}

\* the fields of OddsRiskOpportunity and EdgeAnalysis the sort reads
EdgeRows == [id : RowIds, edge : SortKeys]

\* the fields of PlayerProjection the sort reads
PlayerRows == [id : RowIds, expected_gi : SortKeys]

ArraysOf(S) == UNION {[1..n -> S] : n \in 0..MaxTableRows}

RECURSIVE SortByExpectedGi(_)
\* [...data].sort((a, b) => b.expected_gi - a.expected_gi)
SortByExpectedGi(data) ==
    IF data = <<>> THEN <<>>
    ELSE LET last == data[Len(data)]
             front == SortByExpectedGi(SubSeq(data, 1, Len(data) - 1))
             before == SelectSeq(front, LAMBDA o : last.expected_gi - o.expected_gi <= 0)
             after == SelectSeq(front, LAMBDA o : last.expected_gi - o.expected_gi > 0)
         IN  before \o <<last>> \o after

\* data.sort(...), without the copy: sort works in place
SortsInPlace(data, sorted) == [data |-> sorted, sortedData |-> sorted]

\* [...data].sort(...): the array sorted is a copy of data
SortsCopy(data, sorted) == [data |-> data, sortedData |-> sorted]

TableMount(component, data) ==
    [component |-> component, props |-> data, data |-> data, rows |-> None]

InitTables ==
    /\ env \in {e \in Envs : e.hasWindow /\ e.baseUrl = JsUndef}
    /\ storage = <<>>
    /\ call = Idle
    /\ lastOp = [op |-> "none"]
    /\ calls = NoneInFlight
    /\ ui \in {TableMount("OpportunitiesTable", data) : data \in ArraysOf(EdgeRows) \ {<<>>}}
                \cup {TableMount("EdgeAnalysisTable", data) : data \in ArraysOf(EdgeRows)}
                \cup {TableMount("PlayersTable", data) : data \in ArraysOf(PlayerRows)}

\* OpportunitiesTable, mounted when data.opportunities is not empty
ShowOpportunitiesTable ==
    /\ ui.component = "OpportunitiesTable" /\ ui.rows = None
    /\ LET s == SortsCopy(ui.data, SortByEdge(ui.data))
       IN  ui' = [ui EXCEPT !.data = s.data, !.rows = JsArr(s.sortedData)]
    /\ UNCHANGED <<env, storage, call, lastOp, calls>>

\* EdgeAnalysisTable: its message and no row for an empty array
ShowEdgeAnalysisTable ==
    /\ ui.component = "EdgeAnalysisTable" /\ ui.rows = None
    /\ IF Len(ui.data) = 0
       THEN ui' = [ui EXCEPT !.rows = JsArr(<<>>)]
       ELSE LET s == SortsCopy(ui.data, SortByEdge(ui.data))
            IN  ui' = [ui EXCEPT !.data = s.data, !.rows = JsArr(s.sortedData)]
    /\ UNCHANGED <<env, storage, call, lastOp, calls>>

ShowPlayersTable ==
    /\ ui.component = "PlayersTable" /\ ui.rows = None
    /\ LET s == SortsCopy(ui.data, SortByExpectedGi(ui.data))
       IN  ui' = [ui EXCEPT !.data = s.data, !.rows = JsArr(s.sortedData)]
    /\ UNCHANGED <<env, storage, call, lastOp, calls>>

NextTables ==
    \/ ShowOpportunitiesTable
    \/ ShowEdgeAnalysisTable
    \/ ShowPlayersTable

SpecTables == InitTables /\ [][NextTables]_vars

\* the key a table sorts its rows by
SortKey(row) == IF ui.component = "PlayersTable" THEN row.expected_gi ELSE row.edge

\* how many times x occurs in seq
Occurrences(seq, x) == Cardinality({i \in 1..Len(seq) : seq[i] = x})

\* C29: the rows a table displays are a permutation of the array it was given,
\* in non-increasing order of edge (expected_gi for the players table), rows
\* of equal key in the order they were given; the array given is unchanged.
C29_SortedCopy ==
    ui.rows # None
        => /\ ui.data = ui.props
           /\ Len(ui.rows.v) = Len(ui.props)
           /\ \A i \in 1..Len(ui.props) :
                 Occurrences(ui.rows.v, ui.props[i]) = Occurrences(ui.props, ui.props[i])
           /\ \A i, j \in 1..Len(ui.rows.v) :
                 i < j => SortKey(ui.rows.v[i]) >= SortKey(ui.rows.v[j])
           /\ \A k \in SortKeys :
                 SelectSeq(ui.rows.v, LAMBDA r : SortKey(r) = k)
                    = SelectSeq(ui.props, LAMBDA r : SortKey(r) = k)

\* a table has displayed three rows given in another order, two of them of
\* equal key
C29_Witness ==
    /\ ui.rows # None /\ Len(ui.rows.v) = 3
    /\ ui.rows.v # ui.props
    /\ SortKey(ui.rows.v[1]) = 64 /\ SortKey(ui.rows.v[2]) = 21 /\ SortKey(ui.rows.v[3]) = 21
    /\ ui.rows.v[2] # ui.rows.v[3]
    /\ ui.props[1] = ui.rows.v[2]
====
